---- MODULE Spec2Model ----
\* A model of pySuStaIn's AbstractSustain (src/AbstractSustain.py): the EM-style
\* optimiser, the multi-start routines, the hierarchical grower, the MCMC
\* proposal tuner and the posterior assigner.  Each component has its own
\* specification (SpecEM, SpecML, SpecGrow, SpecMCMC, SpecAssign) over a shared
\* set of variables; a component that is not running keeps its variables at
\* their idle values.
\*
\* Numbers.  Log-likelihoods are integers; NaN and -inf are two reserved
\* integers outside the range of the likelihoods used.  Mixture fractions are
\* integers in units of 1/FUnit.  Probabilities in the assigner are exact
\* rationals <<numerator, denominator>>; <<0, 0>> is NaN (the value numpy gives
\* for 0/0).  Floating-point rounding is not modelled.
EXTENDS Integers, Sequences, FiniteSets, TLC

VARIABLES
  \* the frame of _perform_em: its locals current_sequence, current_f,
  \* current_likelihood, candidate_*, HAS_converged, terminate, iteration and
  \* samples_*, with two history fields: n_optimise_calls, the calls of
  \* _optimise_parameters so far, and em_prev, the (S, f, likelihood) held when
  \* the last pass of the loop began
  em,
  \* the frame of the multi-start routine being run (_find_ml, _find_ml_mixture2
  \* or _find_ml_mixture): its arguments, locals and return values, with the
  \* history field n_perform_em, the calls of _perform_em so far
  ml,
  \* the frame of _estimate_ml_sustain_model_nplus1_clusters for N_S > 1: its
  \* arguments and locals, with the history field log, one record per split
  \* index the loop has handled
  gr,
  \* the frame of _estimate_uncertainty_sustain_model with that of
  \* _optimise_mcmc_settings inside it: their arguments, locals and return
  \* values, with the history field calls, one record per call of _perform_mcmc
  mc,
  \* the frame of subtype_and_stage_individuals: its arguments, locals and
  \* return values
  asg,
  \* the frame of run_sustain_algorithm, with the pickle files of the output
  \* folder, which outlive a call, and the history fields calls (the calls of
  \* the Grower, the Sampler and the assigner made by the running call) and
  \* computed (what the Grower last returned for each subtype count)
  rs,
  \* the frame of cross_validate_sustain_model, with the pickle files of the
  \* output folder and the history fields calls, computed (for each unit, the
  \* optimum and chain computed by the pass that ran it) and evaluated (the
  \* arguments and result of the last call of _evaluate_likelihood_setofsamples
  \* made by the running call, with what _calculate_likelihood returned for
  \* each chain sample)
  cv

vars == <<em, ml, gr, mc, asg, rs, cv>>

\* ------------------------------------------------------------------ numbers

\* np.nan: a value that compares false with everything.
NaN == -999999999

\* -np.inf: below every likelihood.
NegInf == -999999998

IsNaN(x) == x = NaN

Abs(x) == IF x < 0 THEN -x ELSE x

\* x > y on floats: false when either side is NaN.
FloatGt(x, y) == ~IsNaN(x) /\ ~IsNaN(y) /\ x > y

\* Python's builtin max(a, b): the first argument unless the second is greater.
PyMax(a, b) == IF FloatGt(b, a) THEN b ELSE a

\* ------------------------------------------------------------------ matrices

\* Row-major flattening of a matrix given as a sequence of rows.
RECURSIVE Flatten(_)
Flatten(mat) ==
  IF mat = <<>> THEN <<>> ELSE Head(mat) \o Flatten(Tail(mat))

\* ndarray.reshape(r, c): the same elements in row-major order.
Reshape(mat, r, c) ==
  LET flat == Flatten(mat)
  IN  [i \in 1..r |-> [j \in 1..c |-> flat[(i - 1) * c + j]]]

\* ndarray.T of a matrix with r rows and c columns.
Transpose(mat, r, c) ==
  [j \in 1..c |-> [i \in 1..r |-> mat[i][j]]]

\* ------------------------------------------------------------------ _perform_em

\* MaxIter of _perform_em.
MaxIter == 100

\* The convergence tolerance 1e-6, as its reciprocal.
TolInv == 1000000

\* Fractions are held in units of 1/FUnit.
FUnit == 12

\* Number of stages N of the data the model is run on, and the number of
\* subtypes of the mixture _perform_em is started on in SpecEM.
N_stages == 2
EM_N_S == 2

\* The uniform fractions np.array([1.] * N_S) / float(N_S).
UniformF(ns) == [s \in 1..ns |-> FUnit \div ns]

\* A non-uniform fraction vector for ns subtypes.
SkewF(ns) == << <<12>>, <<8, 4>>, <<6, 3, 3>>, <<6, 2, 2, 2>> >>[ns]

\* Sequence matrices of ns rows over the two stage orders <<0, 1>> and <<1, 0>>.
RowsAll(ns, row) == [s \in 1..ns |-> row]
RowsFirst(ns, row, rest) == [s \in 1..ns |-> IF s = 1 THEN row ELSE rest]

\* What the model's _optimise_parameters can return for a mixture of ns subtypes:
\* any (S', f', ll').  Two candidates share the likelihood 0, one has a NaN
\* likelihood, and -2000000 and -1999999 differ by less than 1e-6 relative.
OptimisePool(ns) ==
  { [sequence |-> RowsAll(ns, <<0, 1>>), f |-> UniformF(ns), likelihood |-> -2000000],
    [sequence |-> RowsFirst(ns, <<1, 0>>, <<0, 1>>), f |-> SkewF(ns), likelihood |-> -1999999],
    [sequence |-> RowsAll(ns, <<1, 0>>), f |-> UniformF(ns), likelihood |-> 0],
    [sequence |-> RowsFirst(ns, <<0, 1>>, <<1, 0>>), f |-> SkewF(ns), likelihood |-> 0],
    [sequence |-> RowsAll(ns, <<1, 0>>), f |-> SkewF(ns), likelihood |-> NaN] }

\* The abstract _optimise_parameters: the candidates it may return.
OptimiseParameters(S, f) == OptimisePool(Len(S))

\* The likelihoods _calculate_likelihood can give a starting point.
StartLikelihoods == {-2000000, -1999999, 0}

\* The starting points (S, f) of ns subtypes, with their likelihood.
EMStarts(ns) == { c \in OptimisePool(ns) : ~IsNaN(c.likelihood) }

\* HAS_converged: fabs((candidate - current) / max(candidate, current)) < 1e-6.
\* A NaN operand gives NaN and a zero divisor gives inf or NaN (numpy floats do
\* not raise); neither is below the tolerance.
HasConvergedMutNoTest(cand, cur) == FALSE
HasConverged(cand, cur) ==
  LET m == PyMax(cand, cur)
      d == cand - cur
  IN  /\ ~IsNaN(cand)
      /\ ~IsNaN(cur)
      /\ m # 0
      /\ Abs(d) <= (Abs(m) - 1) \div TolInv

\* The accept test of the else branch: candidate_likelihood > current_likelihood.
AcceptsMutGe(cand, cur) == ~IsNaN(cand) /\ ~IsNaN(cur) /\ cand >= cur
AcceptsMutAlways(cand, cur) == ~IsNaN(cand)
Accepts(cand, cur) == FloatGt(cand, cur)

\* One pass of the while loop of _perform_em on the local state st with the
\* candidate cand returned by _optimise_parameters.
EMStep(st, cand) ==
  LET conv  == HasConverged(cand.likelihood, st.current_likelihood)
      adopt == ~conv /\ Accepts(cand.likelihood, st.current_likelihood)
      seq1  == IF adopt THEN cand.sequence ELSE st.current_sequence
      f1    == IF adopt THEN cand.f ELSE st.current_f
      ll1   == IF adopt THEN cand.likelihood ELSE st.current_likelihood
      it    == st.iteration
  IN  [ current_sequence   |-> seq1,
        current_f          |-> f1,
        current_likelihood |-> ll1,
        candidate_sequence |-> cand.sequence,
        candidate_f        |-> cand.f,
        candidate_likelihood |-> cand.likelihood,
        HAS_converged      |-> conv,
        terminate          |-> IF conv \/ it = MaxIter - 1 THEN 1 ELSE 0,
        iteration          |-> it + 1,
        samples_sequence   |-> [st.samples_sequence EXCEPT
                                  ![it] = Transpose(seq1, Len(seq1), Len(seq1[1]))],
        samples_f          |-> [st.samples_f EXCEPT ![it] = f1],
        samples_likelihood |-> [st.samples_likelihood EXCEPT ![it] = ll1],
        n_optimise_calls   |-> st.n_optimise_calls + 1,
        em_prev            |-> [sequence   |-> st.current_sequence,
                                f          |-> st.current_f,
                                likelihood |-> st.current_likelihood] ]

\* The local state of _perform_em before its loop, started from (S, f) whose
\* likelihood is ll.
EMBegin(S, f, ll) ==
  [ current_sequence   |-> S,
    current_f          |-> f,
    current_likelihood |-> ll,
    candidate_sequence |-> [s \in 1..Len(S) |-> [k \in 1..Len(S[1]) |-> NaN]],
    candidate_f        |-> [s \in 1..Len(S) |-> NaN],
    candidate_likelihood |-> NaN,
    HAS_converged      |-> FALSE,
    terminate          |-> 0,
    iteration          |-> 0,
    samples_sequence   |-> [i \in 0..(MaxIter - 1) |->
                              IF i = 0 THEN Reshape(S, Len(S[1]), Len(S))
                              ELSE [k \in 1..Len(S[1]) |-> [s \in 1..Len(S) |-> NaN]]],
    samples_f          |-> [i \in 0..(MaxIter - 1) |->
                              IF i = 0 THEN f ELSE [s \in 1..Len(S) |-> NaN]],
    samples_likelihood |-> [i \in 0..(MaxIter - 1) |-> IF i = 0 THEN ll ELSE NaN],
    n_optimise_calls   |-> 0,
    em_prev            |-> [sequence |-> S, f |-> f, likelihood |-> ll] ]

\* _perform_em is entered with a starting point (lines 650-665).
EMInit ==
  \E s \in EMStarts(EM_N_S) : em = EMBegin(s.sequence, s.f, s.likelihood)

\* One iteration of the while loop of _perform_em.
PerformEMStep ==
  /\ em.terminate = 0
  /\ \E cand \in OptimiseParameters(em.current_sequence, em.current_f) :
       em' = EMStep(em, cand)

\* _perform_em run to its return, the k-th call of _optimise_parameters
\* returning stream[k mod Len(stream)].
RECURSIVE EMRun(_, _)
EMRun(st, stream) ==
  IF st.terminate = 1
    THEN st
    ELSE EMRun(EMStep(st, stream[(st.iteration % Len(stream)) + 1]), stream)

\* What _perform_em returns (lines 690-693), without the traces.
PerformEM(S, f, ll, stream) ==
  LET st == EMRun(EMBegin(S, f, ll), stream)
  IN  [ml_sequence |-> st.current_sequence, ml_f |-> st.current_f,
       ml_likelihood |-> st.current_likelihood]

\* Largest number of subtypes of a mixture that is optimised.
MaxNS == 3

\* The candidate streams tried: those of period one or two.
Streams(ns) == [{1} -> OptimisePool(ns)] \cup [{1, 2} -> OptimisePool(ns)]

\* The stage orders _initialise_sequence can return: permutations of {0..N-1}.
StageOrders == { <<0, 1>>, <<1, 0>> }

\* Every (S, f, likelihood) some run of _perform_em can return from a given
\* start, tabulated once for the starts the multi-start routines use.
EMStartKeys ==
  UNION { { <<S, UniformF(ns), ll>> : S \in [1..ns -> StageOrders],
                                      ll \in StartLikelihoods } : ns \in 1..MaxNS }

\* (f @@ <<>> is f, held as an enumerated function.)
EMResultTable ==
  [k \in EMStartKeys |->
     { PerformEM(k[1], k[2], k[3], stream) : stream \in Streams(Len(k[1])) }] @@ <<>>

PerformEMResults(S, f, ll) == EMResultTable[<<S, f, ll>>]

\* The rows _perform_em can return when it is started on one cluster's subjects
\* from _initialise_sequence with f = [1] (lines 538-542).  The likelihood of a
\* start on no subjects is the empty sum, 0.
ClusterFitTable ==
  [empty \in BOOLEAN |->
     { r.ml_sequence[1] :
         r \in UNION { PerformEMResults(<<o>>, UniformF(1), l) :
                         o \in StageOrders,
                         l \in IF empty THEN {0} ELSE StartLikelihoods } }] @@ <<>>

ClusterFitRows(idx) == ClusterFitTable[idx = {}]

MLIdle == ml = [routine |-> "none"]
GrIdle == gr = [pc |-> "idle"]
McIdle == mc = [pc |-> "idle"]
AsgIdle == asg = [pc |-> "idle"]
RsIdle == rs = [pc |-> "idle"]
CvIdle == cv = [pc |-> "idle"]

InitEM == EMInit /\ MLIdle /\ GrIdle /\ McIdle /\ AsgIdle /\ RsIdle /\ CvIdle
NextEM == PerformEMStep /\ UNCHANGED <<ml, gr, mc, asg, rs, cv>>
SpecEM == InitEM /\ [][NextEM]_vars

\* ------------------------------------------------------------------ multi-start

\* Largest N_startpoints tried.
MaxStartpoints == 2

\* Number of subjects of the data handed to _find_ml_mixture2.
ML_M == 2

\* np.argmax of a vector indexed 0..n-1: the lowest index of a NaN if there is
\* one, else the lowest index holding the maximum.
ArgMaxMutLast(vec, n) ==
  CHOOSE i \in 0..(n - 1) :
    /\ \A j \in 0..(n - 1) : vec[i] >= vec[j]
    /\ \A j \in (i + 1)..(n - 1) : vec[j] < vec[i]
ArgMax(vec, n) ==
  IF \E i \in 0..(n - 1) : IsNaN(vec[i])
    THEN CHOOSE i \in 0..(n - 1) :
           IsNaN(vec[i]) /\ \A j \in 0..(i - 1) : ~IsNaN(vec[j])
    ELSE CHOOSE i \in 0..(n - 1) :
           /\ \A j \in 0..(n - 1) : vec[i] >= vec[j]
           /\ \A j \in 0..(i - 1) : vec[j] < vec[i]

\* max(ml_likelihood_mat) of NaN-free likelihoods.
MaxOf(vec, n) == vec[ArgMax(vec, n)]

\* np.where(vec == value)[0]: the indices holding value, ascending.
RECURSIVE WhereFrom(_, _, _, _)
WhereFrom(vec, n, value, i) ==
  IF i >= n THEN <<>>
  ELSE (IF vec[i] = value THEN <<i>> ELSE <<>>) \o WhereFrom(vec, n, value, i + 1)

WhereEq(vec, n, value) == WhereFrom(vec, n, value, 0)

\* The frame of a multi-start routine before its loop: the np.zeros result
\* arrays, terminate = 0, startpoint = 0.  seq_init and f_init are the start
\* of the recorded _perform_em run of the last pass.  starts and rejected are
\* history: the (seq_init, f_init) handed to _perform_em in each pass of
\* _find_ml_mixture so far, and the cluster draw the last pass of
\* _find_ml_mixture2 threw away last, if it threw any away.
MLBegin(routine, nsp, ns, seq_init, f_init, ll_init) ==
  [ routine           |-> routine,
    N_startpoints     |-> nsp,
    N_S               |-> ns,
    seq_init          |-> seq_init,
    f_init            |-> f_init,
    init_likelihood   |-> ll_init,
    cluster_assignment |-> [m \in 1..ML_M |-> 0],
    terminate         |-> 0,
    startpoint        |-> 0,
    ml_sequence_mat   |-> [i \in 0..(nsp - 1) |-> [s \in 1..ns |-> [k \in 1..N_stages |-> 0]]],
    ml_f_mat          |-> [i \in 0..(nsp - 1) |-> [s \in 1..ns |-> 0]],
    ml_likelihood_mat |-> [i \in 0..(nsp - 1) |-> 0],
    ix                |-> <<>>,
    ml_sequence       |-> <<>>,
    ml_f              |-> <<>>,
    ml_likelihood     |-> <<>>,
    returned          |-> FALSE,
    n_perform_em      |-> 0,
    starts            |-> <<>>,
    rejected          |-> <<>> ]

MLRecordMutFirst(fr, this, calls) ==
  [fr EXCEPT
     !.ml_sequence_mat[0]   = this.ml_sequence,
     !.ml_f_mat[0]          = this.ml_f,
     !.ml_likelihood_mat[0] = this.ml_likelihood,
     !.terminate  = IF fr.startpoint = fr.N_startpoints - 1 THEN 1 ELSE 0,
     !.startpoint = fr.startpoint + 1,
     !.n_perform_em = fr.n_perform_em + calls]

\* The end of one pass of a multi-start loop: the run's result this_ml_* is
\* stored at startpoint, terminate is set at the last startpoint, startpoint is
\* advanced; calls is the number of _perform_em calls the pass made.
MLRecord(fr, this, calls) ==
  [fr EXCEPT
     !.ml_sequence_mat[fr.startpoint]   = this.ml_sequence,
     !.ml_f_mat[fr.startpoint]          = this.ml_f,
     !.ml_likelihood_mat[fr.startpoint] = this.ml_likelihood,
     !.terminate  = IF fr.startpoint = fr.N_startpoints - 1 THEN 1 ELSE 0,
     !.startpoint = fr.startpoint + 1,
     !.n_perform_em = fr.n_perform_em + calls]

\* The arrays a routine returns for the startpoints listed in ix.
MLTake(fr, ix) ==
  [fr EXCEPT
     !.ix            = ix,
     !.ml_sequence   = [k \in 1..Len(ix) |-> fr.ml_sequence_mat[ix[k]]],
     !.ml_f          = [k \in 1..Len(ix) |-> fr.ml_f_mat[ix[k]]],
     !.ml_likelihood = [k \in 1..Len(ix) |-> fr.ml_likelihood_mat[ix[k]]],
     !.returned      = TRUE]

\* _find_ml, lines 491-496: ix = np.argmax(ml_likelihood_mat).
FindMlSelect(fr) ==
  MLTake(fr, <<ArgMax(fr.ml_likelihood_mat, fr.N_startpoints)>>)

\* _find_ml_mixture2, lines 561-573: ix = [first index where the likelihood
\* equals the maximum]; the returned arrays keep an axis of length 1.
FindMlMixture2Select(fr) ==
  LET w == WhereEq(fr.ml_likelihood_mat, fr.N_startpoints,
                   MaxOf(fr.ml_likelihood_mat, fr.N_startpoints))
  IN  MLTake(fr, <<w[1]>>)

\* _find_ml_mixture, lines 637-644: ix = every index where the likelihood equals
\* the maximum; the returned arrays have one entry per such index.
FindMlMixtureSelect(fr) ==
  MLTake(fr, WhereEq(fr.ml_likelihood_mat, fr.N_startpoints,
                     MaxOf(fr.ml_likelihood_mat, fr.N_startpoints)))

\* A pass of the loop followed, after the last pass, by the selection.
MLPass(fr, this, calls) ==
  LET fr1 == MLRecord(fr, this, calls)
  IN  IF fr1.terminate = 0 THEN fr1
      ELSE IF fr.routine = "find_ml" THEN FindMlSelect(fr1)
      ELSE IF fr.routine = "find_ml_mixture2" THEN FindMlMixture2Select(fr1)
      ELSE FindMlMixtureSelect(fr1)

\* min_N_cluster (lines 526-529): temp_N_cluster is overwritten for s = 1 and
\* then s = 2, so min_N_cluster is the count of cluster 2 alone.  ClusterDraws
\* are the draws of cluster_assignment that leave the while loop of lines
\* 522-530.
MinNCluster(ca, M) == Cardinality({m \in 1..M : ca[m] = 2})

RedrawsMutTrueMin(ca, M) ==
  \/ Cardinality({m \in 1..M : ca[m] = 1}) = 0
  \/ Cardinality({m \in 1..M : ca[m] = 2}) = 0

\* while min_N_cluster == 0 (line 522), for the draw ca.
Redraws(ca, M) == MinNCluster(ca, M) = 0

ClusterDraws(M) == { ca \in [1..M -> 1..2] : ~Redraws(ca, M) }

\* The draws the loop throws away.
RejectedDraws(M) == { ca \in [1..M -> 1..2] : Redraws(ca, M) }

\* The (seq_init, f_init) a run of _perform_em is started from.
EMStart(seq_init, f_init) == [seq_init |-> seq_init, f_init |-> f_init]

MixtureStartMutFirstOnly(fr) ==
  IF fr.startpoint = 0 THEN EMStart(fr.seq_init, fr.f_init)
  ELSE EMStart([fr.seq_init EXCEPT ![1] = IF @ = <<0, 1>> THEN <<1, 0>> ELSE <<0, 1>>],
               fr.f_init)

\* The start of the run of a pass of _find_ml_mixture (line 627): the
\* arguments seq_init and f_init, at every startpoint.
MixtureStart(fr) == EMStart(fr.seq_init, fr.f_init)

\* One pass of the loop of _find_ml (lines 470-489), and after the last the
\* selection (lines 491-496).
FindMlPass ==
  /\ ml.routine = "find_ml"
  /\ ml.terminate = 0
  /\ \E seq_init \in StageOrders, ll \in StartLikelihoods :
       \E this \in PerformEMResults(<<seq_init>>, UniformF(1), ll) :
         ml' = MLPass([ml EXCEPT !.seq_init = <<seq_init>>, !.f_init = UniformF(1)],
                      this, 1)
  /\ UNCHANGED <<em, gr, mc, asg, rs, cv>>

\* One pass of the loop of _find_ml_mixture2 (lines 518-559): the cluster draws,
\* one _perform_em per cluster to build seq_init, the mixture _perform_em; and
\* after the last pass the selection (lines 561-573).
FindMlMixture2Pass ==
  /\ ml.routine = "find_ml_mixture2"
  /\ ml.terminate = 0
  /\ \E ca \in ClusterDraws(ML_M) :
       \E rejected \in {<<>>} \cup { <<r>> : r \in RejectedDraws(ML_M) },
          row1 \in ClusterFitRows({m \in 1..ML_M : ca[m] = 1}),
          row2 \in ClusterFitRows({m \in 1..ML_M : ca[m] = 2}) :
         LET seq_init == <<row1, row2>>
             f_init   == UniformF(2)
         IN  \E ll \in StartLikelihoods :
               \E this \in PerformEMResults(seq_init, f_init, ll) :
                 ml' = MLPass([ml EXCEPT !.cluster_assignment = ca,
                                         !.rejected = rejected,
                                         !.seq_init = seq_init,
                                         !.f_init = f_init],
                              this, 3)
  /\ UNCHANGED <<em, gr, mc, asg, rs, cv>>

\* One pass of the loop of _find_ml_mixture (lines 622-635): _perform_em from the
\* given (seq_init, f_init); and after the last pass the selection (lines
\* 637-644).
FindMlMixturePass ==
  /\ ml.routine = "find_ml_mixture"
  /\ ml.terminate = 0
  /\ LET start == MixtureStart(ml)
     IN  \E this \in PerformEMResults(start.seq_init, start.f_init, ml.init_likelihood) :
           ml' = MLPass([ml EXCEPT !.starts = Append(@, start)], this, 1)
  /\ UNCHANGED <<em, gr, mc, asg, rs, cv>>

\* A multi-start routine is entered with N_startpoints >= 1.
MLInit ==
  \E nsp \in 1..MaxStartpoints :
    \/ ml = MLBegin("find_ml", nsp, 1, <<>>, <<>>, 0)
    \/ ml = MLBegin("find_ml_mixture2", nsp, 2, <<>>, <<>>, 0)
    \/ \E ns \in 2..MaxNS, ll \in StartLikelihoods :
         \E S \in [1..ns -> StageOrders] :
           ml = MLBegin("find_ml_mixture", nsp, ns, S, UniformF(ns), ll)

EMIdle == em = [terminate |-> 1]

InitML == MLInit /\ EMIdle /\ GrIdle /\ McIdle /\ AsgIdle /\ RsIdle /\ CvIdle
NextML == FindMlPass \/ FindMlMixture2Pass \/ FindMlMixturePass
SpecML == InitML /\ [][NextML]_vars

\* ------------------------------------------------------------------ grower

\* Largest number of subjects of the data the grower is run on.
GR_M == 4

\* A multi-start routine run to its return, pass k recording runs[k]; calls is
\* the number of _perform_em calls of one pass.
RECURSIVE MLRunAll(_, _, _)
MLRunAll(fr, runs, calls) ==
  IF fr.terminate = 1 THEN fr
  ELSE MLRunAll(MLPass(fr, runs[fr.startpoint + 1], calls), runs, calls)

\* What the mixture run of one pass of _find_ml_mixture2 can return on mi
\* subjects.
Mixture2PassResults(mi) ==
  UNION { PerformEMResults(<<row1, row2>>, UniformF(2), ll) :
            row1 \in UNION { ClusterFitRows({m \in 1..mi : ca[m] = 1}) : ca \in ClusterDraws(mi) },
            row2 \in ClusterFitRows({1}),
            ll \in StartLikelihoods }

\* The ml_sequence arrays _find_ml_mixture2 can return, by N_startpoints and the
\* number of subjects.
Mixture2ReturnTable ==
  [k \in (1..MaxStartpoints) \X (1..GR_M) |->
     { MLRunAll(MLBegin("find_ml_mixture2", k[1], 2, <<>>, <<>>, 0), runs, 3).ml_sequence :
         runs \in [1..k[1] -> Mixture2PassResults(k[2])] }] @@ <<>>

FindMlMixture2(nsp, mi) == Mixture2ReturnTable[<<nsp, mi>>]

\* The (ml_sequence, ml_f, ml_likelihood) arrays _find_ml_mixture can return, by
\* seq_init, the likelihood of (seq_init, f_init) and N_startpoints; f_init is
\* uniform.
MixtureReturnTable ==
  [k \in UNION { [1..ns -> StageOrders] \X StartLikelihoods \X (1..MaxStartpoints) :
                   ns \in 2..MaxNS } |->
     { [ml_sequence |-> fr.ml_sequence, ml_f |-> fr.ml_f, ml_likelihood |-> fr.ml_likelihood] :
         fr \in { MLRunAll(MLBegin("find_ml_mixture", k[3], Len(k[1]), k[1],
                                   UniformF(Len(k[1])), k[2]), runs, 1) :
                    runs \in [1..k[3] -> PerformEMResults(k[1], UniformF(Len(k[1])), k[2])] } }] @@ <<>>

FindMlMixture(seq_init, ll, nsp) == MixtureReturnTable[<<seq_init, ll, nsp>>]

\* One row of p_sequence_norm (line 390) over the subtypes 0..n-1: p / sum(p),
\* held as the numerators over the common denominator sum(p); all NaN when the
\* sum is 0.
RECURSIVE SumTo(_, _)
SumTo(row, n) == IF n = 0 THEN 0 ELSE row[n - 1] + SumTo(row, n - 1)

NormRow(row, n) ==
  IF SumTo(row, n) = 0 THEN [s \in 0..(n - 1) |-> NaN] ELSE row

SpliceMutKeepsRow(prev, ix, split) == prev \o <<split[2]>>

\* this_seq_init (lines 420-424): a copy of ml_sequence_prev with row
\* ix_cluster_split replaced by row 0 of the split and row 1 of the split
\* appended.
Splice(prev, ix, split) ==
  [prev EXCEPT ![ix + 1] = split[1]] \o <<split[2]>>

PrevAfterSpliceMutAlias(prev, ix, split) == [prev EXCEPT ![ix + 1] = split[1]]

\* ml_sequence_prev after this_seq_init was built: line 420 takes a copy, so
\* the row assignment of line 422 does not reach ml_sequence_prev.
PrevAfterSplice(prev, ix, split) == prev

\* this_f_init (line 425): np.array([1.] * N_S) / float(N_S).
ThisFInit(N_S) == UniformF(N_S)

\* The test of line 439: this_ml_likelihood[0] > ml_likelihood.
GrowerReplacesMutGe(this_ll, ll) == this_ll >= ll
GrowerReplaces(this_ll, ll) == FloatGt(this_ll, ll)

\* this_N_cluster > 1 (line 405).
SplitsMutAtLeastOne(n) == n >= 1
Splits(n) == n > 1

\* The frame on entry for N_S > 1, before the hard assignment.  M is
\* sustainData.getNumSamples(); prev_on_entry is history: the value of the
\* argument ml_sequence_prev when the call began.
GrowerBegin(prev, nsp, M) ==
  [ pc               |-> "assign",
    M                |-> M,
    N_S              |-> Len(prev) + 1,
    N_startpoints    |-> nsp,
    ml_sequence_prev |-> prev,
    ml_f_prev        |-> UniformF(Len(prev)),
    m                |-> 0,
    ml_cluster_subj  |-> [i \in 0..(M - 1) |-> 0],
    ix_cluster_split |-> 0,
    ml_likelihood    |-> NegInf,
    ml_sequence      |-> <<>>,
    ml_f             |-> <<>>,
    bound            |-> FALSE,
    prev_on_entry    |-> prev,
    log              |-> <<>> ]

\* The body of the loop of lines 394-399 for subject m, whose row of p_sequence
\* is row; after the last subject, ml_likelihood = -np.inf (line 401).
GrowerAssignSubject(fr, row) ==
  LET n  == fr.N_S - 1
      ix == ArgMax(NormRow(row, n), n) + 1
  IN  [fr EXCEPT !.ml_cluster_subj[fr.m] = ix,
                 !.m = fr.m + 1,
                 !.pc = IF fr.m = fr.M - 1 THEN "split" ELSE "assign"]

\* The return of line 451: ml_sequence is unbound when no candidate replaced
\* the initial -inf, and reading it raises UnboundLocalError.
GrowerReturn(fr) ==
  IF fr.ix_cluster_split < fr.N_S - 1 THEN fr
  ELSE [fr EXCEPT !.pc = IF fr.bound THEN "returned" ELSE "raised"]

\* One pass of the loop of lines 402-448 for a cluster that is too small.
GrowerSkip(fr, n) ==
  GrowerReturn(
    [fr EXCEPT !.ix_cluster_split = fr.ix_cluster_split + 1,
               !.log = Append(fr.log,
                 [this_N_cluster |-> n, split |-> FALSE,
                  n_find_ml_mixture2 |-> 0, n_find_ml_mixture |-> 0,
                  this_ml_sequence_split |-> <<>>,
                  this_seq_init |-> <<>>, this_f_init |-> <<>>,
                  this_ml_sequence |-> <<>>, this_ml_f |-> <<>>,
                  this_ml_likelihood |-> NaN, replaced |-> FALSE])])

\* One pass of the loop of lines 402-448 for a cluster that is split: split is
\* the ml_sequence of _find_ml_mixture2, this the return of _find_ml_mixture
\* started from this_seq_init.
GrowerEvaluate(fr, n, split, this_seq_init, this) ==
  LET rep == GrowerReplaces(this.ml_likelihood[1], fr.ml_likelihood)
  IN  GrowerReturn(
        [fr EXCEPT !.ix_cluster_split = fr.ix_cluster_split + 1,
                   !.ml_sequence_prev = PrevAfterSplice(@, fr.ix_cluster_split, split),
                   !.ml_likelihood = IF rep THEN this.ml_likelihood[1] ELSE @,
                   !.ml_sequence   = IF rep THEN this.ml_sequence[1] ELSE @,
                   !.ml_f          = IF rep THEN this.ml_f[1] ELSE @,
                   !.bound         = rep \/ @,
                   !.log = Append(fr.log,
                     [this_N_cluster |-> n, split |-> TRUE,
                      n_find_ml_mixture2 |-> 1, n_find_ml_mixture |-> 1,
                      this_ml_sequence_split |-> split,
                      this_seq_init |-> this_seq_init,
                      this_f_init |-> ThisFInit(fr.N_S),
                      this_ml_sequence |-> this.ml_sequence[1],
                      this_ml_f |-> this.ml_f[1],
                      this_ml_likelihood |-> this.ml_likelihood[1],
                      replaced |-> rep])])

\* this_N_cluster (line 403): the subjects assigned to cluster ix + 1.
ThisNCluster(fr) ==
  Cardinality({ i \in 0..(fr.M - 1) : fr.ml_cluster_subj[i] = fr.ix_cluster_split + 1 })

\* The values the per-stage likelihoods summed into p_sequence take.
PValues == {0, 1}

\* Hard assignment of the next subject (lines 394-399).
GrowerAssign ==
  /\ gr.pc = "assign"
  /\ \E row \in [0..(gr.N_S - 2) -> PValues] :
       gr' = GrowerAssignSubject(gr, row)
  /\ UNCHANGED <<em, ml, mc, asg, rs, cv>>

\* A pass of the split loop for a cluster with at most one subject (lines
\* 447-448), and the return after the last pass.
GrowerSkipPass ==
  /\ gr.pc = "split"
  /\ ~Splits(ThisNCluster(gr))
  /\ gr' = GrowerSkip(gr, ThisNCluster(gr))
  /\ UNCHANGED <<em, ml, mc, asg, rs, cv>>

\* A pass of the split loop for a cluster with more than one subject (lines
\* 405-446), and the return after the last pass.
GrowerSplitPass ==
  /\ gr.pc = "split"
  /\ Splits(ThisNCluster(gr))
  /\ \E split \in FindMlMixture2(gr.N_startpoints, ThisNCluster(gr)) :
       LET this_seq_init == Splice(gr.ml_sequence_prev, gr.ix_cluster_split, split[1])
       IN  \E ll \in StartLikelihoods :
             \E this \in FindMlMixture(this_seq_init, ll, gr.N_startpoints) :
               gr' = GrowerEvaluate(gr, ThisNCluster(gr), split[1], this_seq_init, this)
  /\ UNCHANGED <<em, ml, mc, asg, rs, cv>>

\* The grower is entered with a previous optimum of 1..MaxNS-1 subtypes and
\* data of 1..GR_M subjects.
GrowerInit ==
  \E nsp \in 1..MaxStartpoints, n \in 1..(MaxNS - 1), M \in 1..GR_M :
    \E prev \in { RowsAll(n, <<0, 1>>), RowsFirst(n, <<1, 0>>, <<0, 1>>) } :
      gr = GrowerBegin(prev, nsp, M)

InitGrow == GrowerInit /\ EMIdle /\ MLIdle /\ McIdle /\ AsgIdle /\ RsIdle /\ CvIdle
NextGrow == GrowerAssign \/ GrowerSkipPass \/ GrowerSplitPass
SpecGrow == InitGrow /\ [][NextGrow]_vars

\* ------------------------------------------------------------------ MCMC tuner

\* n_iterations_MCMC_optimisation (line 769).
n_iterations_MCMC_optimisation == 10000

\* n_passes_optimisation (line 771).
n_passes_optimisation == 3

\* A perturbation scale is a standard deviation; it is held as its square, an
\* exact rational <<numerator, denominator>>, so sigma < 0.01 is
\* sigma^2 < 1/SigmaFloorInvSq.  <<0, 0>> is NaN.
SigmaFloorInvSq == 10000

\* seq_sigma_currentpass = 1 and f_sigma_currentpass = 0.01 before the first
\* pass (lines 773-774); both are scalars.
DefaultSeqSigma == <<1, 1>>
DefaultFSigma == <<1, 10000>>

\* Mixture fractions of the chain samples are integers in units of 1/McFUnit.
McFUnit == 4

\* Number of stages N of the chain samples.
MC_N == 3

\* Largest N_S the tuner is run on.
MC_MaxNS == 2

\* Largest N_iterations_MCMC.
MaxIterationsMCMC == 3

RECURSIVE SumSeq(_)
SumSeq(q) == IF Len(q) = 0 THEN 0 ELSE Head(q) + SumSeq(Tail(q))

\* temp_inv (lines 791-792): temp_inv[temp_seq[p]] = p over an array of zeros;
\* the position of each stage in the row.
InversePermutation(temp_seq) ==
  [j \in 1..Len(temp_seq) |->
     LET ps == { p \in 1..Len(temp_seq) : temp_seq[p] = j - 1 }
     IN  IF ps = {} THEN 0 ELSE (CHOOSE p \in ps : \A q \in ps : q <= p) - 1]

\* np.std(x, ddof=1) squared, for the array x that holds vals[k]/unit cnts[k]
\* times: sum((x - mean)^2) / (n - 1) = (n*sum(x^2) - sum(x)^2) / (n*(n - 1)).
\* One value gives 0/0.
StdSq(vals, cnts, unit) ==
  LET K  == Len(vals)
      n  == SumSeq(cnts)
      s1 == SumSeq([k \in 1..K |-> cnts[k] * vals[k]])
      s2 == SumSeq([k \in 1..K |-> cnts[k] * vals[k] * vals[k]])
  IN  IF n <= 1 THEN <<0, 0>> ELSE <<n * s2 - s1 * s1, n * (n - 1) * unit * unit>>

BelowFloorMutNever(sigma_sq) == FALSE

\* seq_sigma_currentpass < 0.01 (line 796); false for NaN.  A standard
\* deviation of exactly 0.01 is decided by floating-point rounding, and is 0.01
\* to rounding on either side of the test.
BelowFloor(sigma_sq) ==
  /\ sigma_sq[2] > 0
  /\ sigma_sq[1] <= (sigma_sq[2] - 1) \div SigmaFloorInvSq

\* Line 796 for one entry.
FloorSigma(sigma_sq) ==
  IF BelowFloor(sigma_sq) THEN <<1, SigmaFloorInvSq>> ELSE sigma_sq

\* A chain returned by _perform_mcmc is a sequence of segments
\* [S, f, likelihood, count]: count consecutive samples with
\* samples_sequence[:, :, k] = S, samples_f[:, k] = f and
\* samples_likelihood[k] = likelihood.
ChainCounts(samples) == [k \in 1..Len(samples) |-> samples[k].count]

\* samples_position_currentpass[s, j, :] (lines 787-793), one value per segment.
SamplesPosition(samples, s, j) ==
  [k \in 1..Len(samples) |-> InversePermutation(samples[k].S[s])[j]]

\* seq_sigma_currentpass after a pass (lines 795-796), N_S x N.
SeqSigmaCurrentpass(samples, ns) ==
  [s \in 1..ns |->
     [j \in 1..MC_N |->
        FloorSigma(StdSq(SamplesPosition(samples, s, j), ChainCounts(samples), 1))]]

\* f_sigma_currentpass after a pass (line 798), one entry per subtype; it has
\* no floor.
FSigmaCurrentpass(samples, ns) ==
  [s \in 1..ns |->
     StdSq([k \in 1..Len(samples) |-> samples[k].f[s]], ChainCounts(samples), McFUnit)]

\* The fractions with all the weight above 1/McFUnit each on subtype heavy.
McF(ns, heavy) == [s \in 1..ns |-> IF s = heavy THEN McFUnit - (ns - 1) ELSE 1]

\* The (S, f, likelihood) a chain visits.
McStates(ns) ==
  { [S |-> RowsAll(ns, <<0, 1, 2>>), f |-> McF(ns, 1), likelihood |-> -3],
    [S |-> RowsFirst(ns, <<1, 2, 0>>, <<0, 1, 2>>), f |-> McF(ns, ns), likelihood |-> -2] }

McSegment(st, count) ==
  [S |-> st.S, f |-> st.f, likelihood |-> st.likelihood, count |-> count]

\* The chains of n_iterations samples _perform_mcmc (line 836, abstract) can
\* return: one that never moves, and those that move once, after the first
\* sample or half way.
Chains(ns, n_iterations) ==
  { <<McSegment(st, n_iterations)>> : st \in McStates(ns) }
    \cup
  { <<McSegment(m[1], a), McSegment(m[2], n_iterations - a)>> :
      m \in { p \in McStates(ns) \X McStates(ns) : p[1] # p[2] },
      a \in { b \in {1, n_iterations \div 2} : 0 < b /\ b < n_iterations } }

\* What a call of _perform_mcmc returns for a chain: the samples and the first
\* sample of the highest likelihood.
PerformMcmc(samples) ==
  LET best == CHOOSE k \in 1..Len(samples) :
                \A q \in 1..Len(samples) :
                  \/ samples[q].likelihood < samples[k].likelihood
                  \/ (samples[q].likelihood = samples[k].likelihood /\ k <= q)
  IN  [ml_sequence |-> samples[best].S, ml_f |-> samples[best].f,
       ml_likelihood |-> samples[best].likelihood, samples |-> samples]

PassContinuesMutTwo(i) == i < 2

\* for i in range(n_passes_optimisation) (line 778).
PassContinues(i) == i < n_passes_optimisation

\* The record of one call of _perform_mcmc: its arguments and the chain it
\* returned.
McmcCall(fr, n_iterations, seq_sigma, f_sigma, samples) ==
  [seq_init |-> fr.seq_init, f_init |-> fr.f_init, n_iterations |-> n_iterations,
   seq_sigma |-> seq_sigma, f_sigma |-> f_sigma, samples |-> samples]

\* _estimate_uncertainty_sustain_model entered (line 754) and
\* _optimise_mcmc_settings before its loop (lines 769-776).
McBegin(seq_init, f_init, N_iterations_MCMC) ==
  [pc |-> "optimise", seq_init |-> seq_init, f_init |-> f_init,
   N_iterations_MCMC |-> N_iterations_MCMC, N_S |-> Len(seq_init), i |-> 0,
   seq_sigma_currentpass |-> DefaultSeqSigma,
   f_sigma_currentpass |-> DefaultFSigma,
   calls |-> <<>>]

\* One pass of the tuning loop (lines 780-798).
McTune(fr, samples) ==
  [fr EXCEPT !.i = @ + 1,
             !.seq_sigma_currentpass = SeqSigmaCurrentpass(samples, fr.N_S),
             !.f_sigma_currentpass = FSigmaCurrentpass(samples, fr.N_S),
             !.calls = Append(@, McmcCall(fr, n_iterations_MCMC_optimisation,
                                          fr.seq_sigma_currentpass,
                                          fr.f_sigma_currentpass, samples))]

\* The return of _optimise_mcmc_settings (lines 800-803), the full run (lines
\* 757-762) and the return (line 764).
McProduce(fr, samples) ==
  LET out == PerformMcmc(samples)
  IN  [pc |-> "returned", seq_init |-> fr.seq_init, f_init |-> fr.f_init,
       N_iterations_MCMC |-> fr.N_iterations_MCMC, N_S |-> fr.N_S, i |-> fr.i,
       seq_sigma_currentpass |-> fr.seq_sigma_currentpass,
       f_sigma_currentpass |-> fr.f_sigma_currentpass,
       calls |-> Append(fr.calls, McmcCall(fr, fr.N_iterations_MCMC,
                                           fr.seq_sigma_currentpass,
                                           fr.f_sigma_currentpass, samples)),
       seq_sigma_opt |-> fr.seq_sigma_currentpass,
       f_sigma_opt |-> fr.f_sigma_currentpass,
       ml_sequence |-> out.ml_sequence, ml_f |-> out.ml_f,
       ml_likelihood |-> out.ml_likelihood, samples |-> out.samples]

TuningPass ==
  /\ mc.pc = "optimise"
  /\ PassContinues(mc.i)
  /\ \E samples \in Chains(mc.N_S, n_iterations_MCMC_optimisation) :
       mc' = McTune(mc, samples)
  /\ UNCHANGED <<em, ml, gr, asg, rs, cv>>

ProductionRun ==
  /\ mc.pc = "optimise"
  /\ ~PassContinues(mc.i)
  /\ \E samples \in Chains(mc.N_S, mc.N_iterations_MCMC) :
       mc' = McProduce(mc, samples)
  /\ UNCHANGED <<em, ml, gr, asg, rs, cv>>

\* The tuner is entered with N_S in 1..MC_MaxNS and any N_iterations_MCMC up to
\* MaxIterationsMCMC.
McInit ==
  \E ns \in 1..MC_MaxNS, n \in 1..MaxIterationsMCMC :
    \E st \in McStates(ns) :
      mc = McBegin(st.S, st.f, n)

InitMCMC == McInit /\ EMIdle /\ MLIdle /\ GrIdle /\ AsgIdle /\ RsIdle /\ CvIdle
NextMCMC == TuningPass \/ ProductionRun
SpecMCMC == InitMCMC /\ [][NextMCMC]_vars

\* ------------------------------------------------------------------ rationals

\* The probabilities of the likelihood engine and the assigner are exact
\* rationals <<numerator, denominator>> in lowest terms with a positive
\* denominator; RNaN is the value numpy gives for 0/0.  No probability is
\* negative, so x/0 only arises as 0/0.
RNaN == <<0, 0>>

RIsNaN(x) == x = RNaN

RECURSIVE GCD(_, _)
GCD(a, b) == IF b = 0 THEN a ELSE GCD(b, a % b)

RNorm(a, b) == LET g == GCD(a, b) IN <<a \div g, b \div g>>

RAdd(x, y) ==
  IF RIsNaN(x) \/ RIsNaN(y) THEN RNaN
  ELSE RNorm(x[1] * y[2] + y[1] * x[2], x[2] * y[2])

RMul(x, y) ==
  IF RIsNaN(x) \/ RIsNaN(y) THEN RNaN ELSE RNorm(x[1] * y[1], x[2] * y[2])

RDiv(x, y) ==
  IF RIsNaN(x) \/ RIsNaN(y) \/ y[1] = 0 THEN RNaN
  ELSE RNorm(x[1] * y[2], x[2] * y[1])

\* x < y and x == y of floats: false when either side is NaN.
RLt(x, y) == ~RIsNaN(x) /\ ~RIsNaN(y) /\ x[1] * y[2] < y[1] * x[2]
REq(x, y) == ~RIsNaN(x) /\ ~RIsNaN(y) /\ x = y

\* g[0] + ... + g[n].
RECURSIVE RSumTo(_, _)
RSumTo(g, n) == IF n < 0 THEN <<0, 1>> ELSE RAdd(RSumTo(g, n - 1), g[n])

\* ------------------------------------------------------------------ likelihood engine

\* nSamples, the number of subjects (line 291).
AS_M == 2

\* nStages (line 292): a subject is at one of the stages 0..AS_N.
AS_N == 2

\* N_S of the chain handed to the assigner (line 296).
AS_N_S == 2

\* What a subject's data can look like to the model's stage likelihood.
Profiles == {"zero", "early", "late", "flat"}

\* The row of _calculate_likelihood_stage (line 828, abstract) for a subject:
\* the probability of its data at each stage 0..AS_N of a subtype with the
\* sequence row.  A "zero" subject has probability 0 everywhere, an "early" one
\* under the row <<1, 0>>.
StageRow(profile, row) ==
  CASE profile = "zero"  -> <<0, 0, 0>>
    [] profile = "early" -> IF row = <<0, 1>> THEN <<2, 1, 0>> ELSE <<0, 0, 0>>
    [] profile = "late"  -> IF row = <<0, 1>> THEN <<0, 1, 3>> ELSE <<0, 0, 1>>
    [] profile = "flat"  -> <<1, 1, 0>>

CalculateLikelihoodStage(sustainData, row) ==
  [m \in DOMAIN sustainData |->
     [k \in 0..AS_N |-> <<StageRow(sustainData[m], row)[k + 1], 1>>]]

WeightedMutNone(p, f_s) == p

\* One entry of p_perm_k * f_val_mat (lines 725-726): f_val_mat[m, k, s] is
\* f[s] (lines 715-717).
Weighted(p, f_s) == RMul(p, f_s)

\* np.squeeze of an M x N_S array held as x[m][s] (line 725): the axes of
\* length one are dropped.
Squeeze(x, M, N_S) ==
  IF M = 1 /\ N_S = 1 THEN x[0][0]
  ELSE IF M = 1 THEN x[0]
  ELSE IF N_S = 1 THEN [m \in 0..(M - 1) |-> x[m][0]]
  ELSE x

\* _calculate_likelihood (lines 711-731) without loglike, the sum of the
\* logarithms of total_prob_subj + 1e-250.
CalculateLikelihood(sustainData, S, f) ==
  LET M == Cardinality(DOMAIN sustainData)
      N_S == Cardinality(DOMAIN S)
      p_perm_k == [m \in 0..(M - 1) |->
                     [k \in 0..AS_N |->
                        [s \in 0..(N_S - 1) |->
                           CalculateLikelihoodStage(sustainData, S[s])[m][k]]]]
      weighted == [m \in 0..(M - 1) |->
                     [k \in 0..AS_N |->
                        [s \in 0..(N_S - 1) |-> Weighted(p_perm_k[m][k][s], f[s])]]]
      total_prob_cluster == [m \in 0..(M - 1) |->
                               [s \in 0..(N_S - 1) |->
                                  RSumTo([k \in 0..AS_N |-> weighted[m][k][s]], AS_N)]]
      total_prob_stage == [m \in 0..(M - 1) |->
                             [k \in 0..AS_N |-> RSumTo(weighted[m][k], N_S - 1)]]
      total_prob_subj == [m \in 0..(M - 1) |-> RSumTo(total_prob_stage[m], AS_N)]
  IN  [total_prob_subj |-> total_prob_subj, total_prob_stage |-> total_prob_stage,
       total_prob_cluster |-> Squeeze(total_prob_cluster, M, N_S),
       p_perm_k |-> p_perm_k]

\* ------------------------------------------------------------------ posterior assigner

\* Largest n_iterations_MCMC of the chain handed to the assigner, and largest
\* N_samples.
MaxDraws == 3

\* np.round of a / b for a >= 0, b > 0: to the nearest integer, halves to even.
RoundHalfEven(a, b) ==
  LET q == a \div b
      r == a % b
  IN  IF 2 * r < b THEN q
      ELSE IF 2 * r > b THEN q + 1
      ELSE IF q % 2 = 0 THEN q ELSE q + 1

\* select_samples (line 295): np.linspace(0, n - 1, N_samples), rounded.
SelectSamples(n_iterations_MCMC, N_samples) ==
  [i \in 0..(N_samples - 1) |->
     IF N_samples = 1 THEN 0
     ELSE RoundHalfEven(i * (n_iterations_MCMC - 1), N_samples - 1)]

\* temp_mean_f (line 297): the mean of each row of samples_f.
TempMeanF(samples, n) ==
  [s \in 0..(AS_N_S - 1) |->
     RDiv(RSumTo([t \in 0..(n - 1) |-> samples[t].f[s]], n - 1), <<n, 1>>)]

\* np.argsort(v) for the few entries of v: ascending, equal entries in index
\* order.
ArgSort(v, n) ==
  [r \in 0..(n - 1) |->
     CHOOSE s \in 0..(n - 1) :
       Cardinality({ t \in 0..(n - 1) : RLt(v[t], v[s]) \/ (v[t] = v[s] /\ t < s) }) = r]

RelabelIxMutAscending(samples, n) == ArgSort(TempMeanF(samples, n), AS_N_S)

\* ix (line 298): the argsort reversed.
RelabelIx(samples, n) ==
  LET asc == ArgSort(TempMeanF(samples, n), AS_N_S)
  IN  [r \in 0..(AS_N_S - 1) |-> asc[AS_N_S - 1 - r]]

\* x / np.tile(np.sum(x, 1), ...) for one subject's row x[0..n] (lines
\* 317-318).
NormaliseRow(x, n) == [j \in 0..n |-> RDiv(x[j], RSumTo(x, n))]

\* Line 319 for one subject: p[k][s] over the sum of p over the stages and the
\* subtypes.
NormaliseStageSubtype(p) ==
  LET total == RSumTo([k \in 0..AS_N |-> RSumTo(p[k], AS_N_S - 1)], AS_N)
  IN  [k \in 0..AS_N |-> [s \in 0..(AS_N_S - 1) |-> RDiv(p[k][s], total)]]

RunningAverageMutHalf(avg, x, i) ==
  IF i = 0 THEN x ELSE RMul(<<1, 2>>, RAdd(avg, x))

\* (i / (i + 1.) * avg) + (1. / (i + 1.) * x) (lines 321-323).
RunningAverage(avg, x, i) ==
  RAdd(RMul(RNorm(i, i + 1), avg), RMul(RNorm(1, i + 1), x))

\* np.max of v[0..n], which holds no NaN.
RMax(v, n) ==
  CHOOSE x \in { v[j] : j \in 0..n } : \A j \in 0..n : ~RLt(x, v[j])

\* np.where(v == np.max(v))[0]: the indices that attain the maximum.
WhereMax(v, n) == { j \in 0..n : REq(v[j], RMax(v, n)) }

FirstIndexMutLast(where) == CHOOSE j \in where : \A q \in where : q <= j

\* this_subtype[0][0] and this_stage[0][0] (lines 339, 346, 351): the first
\* index of the np.where result.  The assignments tried first (lines 337, 344)
\* succeed when one index attains the maximum, with that index.
FirstIndex(where) == CHOOSE j \in where : \A q \in where : j <= q

\* np.sum(np.isnan(v)) == 0 over v[0..n] (lines 333, 349).
NoNaN(v, n) == \A j \in 0..n : ~RIsNaN(v[j])

\* One draw of the chain.
AsgStates ==
  { [S |-> [s \in 0..(AS_N_S - 1) |-> IF s = 0 THEN <<0, 1>> ELSE <<1, 0>>],
     f |-> [s \in 0..(AS_N_S - 1) |-> IF s = 0 THEN <<3, 4>> ELSE RNorm(1, 4 * (AS_N_S - 1))]],
    [S |-> [s \in 0..(AS_N_S - 1) |-> <<1, 0>>],
     f |-> [s \in 0..(AS_N_S - 1) |-> IF s = AS_N_S - 1 THEN <<3, 4>> ELSE RNorm(1, 4 * (AS_N_S - 1))]] }

\* The frame when the draw loop is entered (lines 291-302).  The four output
\* arrays are all NaN until a subject is assigned (lines 325-328).
AsgBegin(sustainData, samples, n, N_samples) ==
  [pc |-> "draws", sustainData |-> sustainData, samples |-> samples,
   N_samples |-> N_samples, n_iterations_MCMC |-> n,
   select_samples |-> SelectSamples(n, N_samples),
   ix |-> RelabelIx(samples, n),
   i |-> 0,
   prob_subtype_stage |-> [m \in 0..(AS_M - 1) |->
                             [k \in 0..AS_N |-> [s \in 0..(AS_N_S - 1) |-> <<0, 1>>]]],
   prob_subtype |-> [m \in 0..(AS_M - 1) |-> [s \in 0..(AS_N_S - 1) |-> <<0, 1>>]],
   prob_stage |-> [m \in 0..(AS_M - 1) |-> [k \in 0..AS_N |-> <<0, 1>>]],
   draws |-> <<>>,
   i_subject |-> 0,
   ml_subtype |-> [m \in 0..(AS_M - 1) |-> NaN],
   prob_ml_subtype |-> [m \in 0..(AS_M - 1) |-> RNaN],
   ml_stage |-> [m \in 0..(AS_M - 1) |-> NaN],
   prob_ml_stage |-> [m \in 0..(AS_M - 1) |-> RNaN],
   raised |-> "none"]

\* One pass of the draw loop (lines 305-323); draws keeps the sample index,
\* the ix used, the relabelled (this_S, this_f) and the three normalised
\* posteriors of every pass.
AsgDraw(fr) ==
  LET i      == fr.i
      sample == fr.select_samples[i]
      this_S == [s \in 0..(AS_N_S - 1) |-> fr.samples[sample].S[fr.ix[s]]]
      this_f == [s \in 0..(AS_N_S - 1) |-> fr.samples[sample].f[fr.ix[s]]]
      lik    == CalculateLikelihood(fr.sustainData, this_S, this_f)
      total_prob_subtype_norm ==
        [m \in 0..(AS_M - 1) |-> NormaliseRow(lik.total_prob_cluster[m], AS_N_S - 1)]
      total_prob_stage_norm ==
        [m \in 0..(AS_M - 1) |-> NormaliseRow(lik.total_prob_stage[m], AS_N)]
      total_prob_subtype_stage_norm ==
        [m \in 0..(AS_M - 1) |-> NormaliseStageSubtype(lik.p_perm_k[m])]
  IN  [fr EXCEPT
         !.prob_subtype_stage =
            [m \in 0..(AS_M - 1) |-> [k \in 0..AS_N |-> [s \in 0..(AS_N_S - 1) |->
               RunningAverage(@[m][k][s], total_prob_subtype_stage_norm[m][k][s], i)]]],
         !.prob_subtype =
            [m \in 0..(AS_M - 1) |-> [s \in 0..(AS_N_S - 1) |->
               RunningAverage(@[m][s], total_prob_subtype_norm[m][s], i)]],
         !.prob_stage =
            [m \in 0..(AS_M - 1) |-> [k \in 0..AS_N |->
               RunningAverage(@[m][k], total_prob_stage_norm[m][k], i)]],
         !.draws = Append(@, [sample |-> sample,
                              ix |-> fr.ix, this_S |-> this_S, this_f |-> this_f,
                              total_prob_subtype_norm |-> total_prob_subtype_norm,
                              total_prob_stage_norm |-> total_prob_stage_norm,
                              total_prob_subtype_stage_norm |-> total_prob_subtype_stage_norm]),
         !.i = i + 1,
         !.pc = IF i + 1 = fr.N_samples THEN "subjects" ELSE "draws"]

\* One pass of the subject loop (lines 331-352), and the return after the last
\* pass (line 354).  int(ml_subtype[i]) (line 348) raises ValueError when
\* ml_subtype[i] is still NaN.
AsgSubject(fr) ==
  LET i == fr.i_subject
      this_prob_subtype == fr.prob_subtype[i]
      this_subtype == WhereMax(this_prob_subtype, AS_N_S - 1)
      ml_subtype ==
        IF NoNaN(this_prob_subtype, AS_N_S - 1)
          THEN [fr.ml_subtype EXCEPT ![i] = FirstIndex(this_subtype)]
          ELSE fr.ml_subtype
      prob_ml_subtype ==
        IF NoNaN(this_prob_subtype, AS_N_S - 1)
          THEN [fr.prob_ml_subtype EXCEPT ![i] =
                  IF AS_N_S = 1 /\ this_prob_subtype[0] = <<1, 1>> THEN <<1, 1>>
                  ELSE this_prob_subtype[FirstIndex(this_subtype)]]
          ELSE fr.prob_ml_subtype
  IN  IF IsNaN(ml_subtype[i])
        THEN [fr EXCEPT !.pc = "raised", !.raised = "ValueError"]
        ELSE
          LET this_prob_stage == [k \in 0..AS_N |-> fr.prob_subtype_stage[i][k][ml_subtype[i]]]
              this_stage == WhereMax(this_prob_stage, AS_N)
              assigned == NoNaN(this_prob_stage, AS_N)
          IN  [fr EXCEPT
                 !.ml_subtype = ml_subtype,
                 !.prob_ml_subtype = prob_ml_subtype,
                 !.ml_stage = IF assigned THEN [@ EXCEPT ![i] = FirstIndex(this_stage)] ELSE @,
                 !.prob_ml_stage =
                    IF assigned THEN [@ EXCEPT ![i] = this_prob_stage[FirstIndex(this_stage)]]
                    ELSE @,
                 !.i_subject = i + 1,
                 !.pc = IF i + 1 = AS_M THEN "returned" ELSE "subjects"]

AssignDraw ==
  /\ asg.pc = "draws"
  /\ asg' = AsgDraw(asg)
  /\ UNCHANGED <<em, ml, gr, mc, rs, cv>>

AssignSubject ==
  /\ asg.pc = "subjects"
  /\ asg' = AsgSubject(asg)
  /\ UNCHANGED <<em, ml, gr, mc, rs, cv>>

\* The assigner is entered with any data, any chain of up to MaxDraws samples
\* and any N_samples up to MaxDraws.
AsgInit ==
  \E sustainData \in [0..(AS_M - 1) -> Profiles], n \in 1..MaxDraws, N_samples \in 1..MaxDraws :
    \E samples \in [0..(n - 1) -> AsgStates] :
      asg = AsgBegin(sustainData, samples, n, N_samples)

InitAssign == AsgInit /\ EMIdle /\ MLIdle /\ GrIdle /\ McIdle /\ RsIdle /\ CvIdle
NextAssign == AssignDraw \/ AssignSubject
SpecAssign == InitAssign /\ [][NextAssign]_vars

\* ------------------------------------------------------------------ cross-validation

\* getNumSamples() of the data the object was built on (line 188).
CV_M == 3

\* Largest N_S_max, and the number of calls of a driver routine on the same
\* output folder within one behaviour.
MaxNSmax == 2
MaxRuns == 2

\* A python dict is a function on its keys; {} is <<>>.  d[k] = v:
DictSet(d, k, v) == [x \in (DOMAIN d) \cup {k} |-> IF x = k THEN v ELSE d[x]]

\* [x for x in range(M) if x not in test] (line 188), ascending.
RECURSIVE IndxTrainFrom(_, _, _)
IndxTrainFrom(x, M, test) ==
  IF x >= M THEN <<>>
  ELSE IF \E j \in 1..Len(test) : test[j] = x
         THEN IndxTrainFrom(x + 1, M, test)
         ELSE <<x>> \o IndxTrainFrom(x + 1, M, test)

IndxTrainMutAll(M, test) == IndxTrainFrom(0, M, <<>>)

IndxTrain(M, test) == IndxTrainFrom(0, M, test)

\* sustainData.reindex(index) (lines 190-191): the view whose subject j is the
\* subject index[j] of the data.
Reindex(sustainData, index) ==
  [j \in 0..(Len(index) - 1) |-> sustainData[index[j + 1]]]

\* The data sets the object is built on.
CvData ==
  { [m \in 0..(CV_M - 1) |-> IF m = 0 THEN "early" ELSE IF m = 1 THEN "late" ELSE "flat"],
    [m \in 0..(CV_M - 1) |-> IF m = 0 THEN "flat" ELSE IF m = 1 THEN "zero" ELSE "late"] }

\* The fold memberships test_idxs handed to the routine: one array of subject
\* indices per fold.  The first two are partitions of the subjects; the folds
\* of the third overlap and leave a subject out.
CvTestIdxs ==
  { << <<0>>, <<1, 2>> >>,
    << <<2, 0>>, <<1>> >>,
    << <<0, 1>>, <<0>> >> }

\* The (S, f) the Grower and the chain can hold for ns subtypes.
CvStates(ns) ==
  { [S |-> [s \in 0..(ns - 1) |-> IF s = 0 THEN <<0, 1>> ELSE <<1, 0>>],
     f |-> [s \in 0..(ns - 1) |-> RNorm(1, ns)]],
    [S |-> [s \in 0..(ns - 1) |-> <<1, 0>>],
     f |-> [s \in 0..(ns - 1) |->
              IF s = ns - 1 THEN RNorm(ns + 1, 2 * ns) ELSE RNorm(1, 2 * ns)]] }

\* The chain of n samples _estimate_uncertainty_sustain_model returns: it
\* starts at (seq_init, f_init) and moves once.
CvChain(n, first, second) ==
  [t \in 0..(n - 1) |->
     IF t = 0 THEN [S |-> first.S, f |-> first.f, likelihood |-> -3]
     ELSE [S |-> second.S, f |-> second.f, likelihood |-> -2]]

EvaluateLikelihoodSetOfSamplesMutFirst(sustainData, samples, n_iterations) ==
  [m \in DOMAIN sustainData |->
     [i \in 0..(n_iterations - 1) |->
        CalculateLikelihood(sustainData, samples[0].S, samples[0].f).total_prob_subj[m]]]

\* _evaluate_likelihood_setofsamples (lines 805-819): column i is the second
\* value returned by _calculate_likelihood for the sample i.
EvaluateLikelihoodSetOfSamples(sustainData, samples, n_iterations) ==
  [m \in DOMAIN sustainData |->
     [i \in 0..(n_iterations - 1) |->
        CalculateLikelihood(sustainData, samples[i].S, samples[i].f).total_prob_subj[m]]]

\* One record per call of a collaborator: the routine, the unit it was called
\* for, the index array of the view it was given, and its other arguments.
DriverCall(op, fold, s, view, seq, f) ==
  [op |-> op, fold |-> fold, s |-> s, view |-> view, seq |-> seq, f |-> f]

\* The keys read from a checkpoint, in the order of lines 209-218.
CvLoadKeys ==
  << "ml_sequence_EM", "ml_sequence_prev_EM", "ml_f_EM", "ml_f_prev_EM",
     "samples_likelihood", "samples_sequence", "samples_f",
     "samples_likelihood_subj_test" >>

\* save_variables as pickled (lines 252-263): the dict filled with the four
\* optimum keys is replaced by an empty one (line 258) before the chain keys
\* are set.  opt is the optimum and prev the previous optimum, which line 243
\* has made the optimum by then.
CvSaveVariables(opt, prev, samples, samples_likelihood_subj_test) ==
  LET d1 == DictSet(DictSet(DictSet(DictSet(<<>>,
                "ml_sequence_EM", opt.S),
                "ml_sequence_prev_EM", prev.S),
                "ml_f_EM", opt.f),
                "ml_f_prev_EM", prev.f)
      d2 == <<>>
  IN  DictSet(DictSet(DictSet(DictSet(d2,
        "samples_sequence", [t \in DOMAIN samples |-> samples[t].S]),
        "samples_f", [t \in DOMAIN samples |-> samples[t].f]),
        "samples_likelihood", [t \in DOMAIN samples |-> samples[t].likelihood]),
        "samples_likelihood_subj_test", samples_likelihood_subj_test)

\* The position in the test_idxs handed to the routine of each fold the loop
\* runs over (lines 180-182): test_idxs[select_fold] when select_fold is not
\* empty, every fold otherwise.
SelectedFolds(test_idxs, select_fold) ==
  IF select_fold # <<>> THEN select_fold ELSE [i \in 1..Len(test_idxs) |-> i - 1]

\* The frame when the fold loop is entered (lines 177-184), on the output
\* folder fs.  select_fold is an array of fold numbers; an empty one selects
\* every fold (line 180).  selected_folds and read are history: the original
\* fold of each fold of the loop, and the checkpoints this call has unpickled.
CvBegin(fs, computed, run, sustainData, N_S_max, N_iterations_MCMC, test_idxs, select_fold) ==
  LET selected == IF select_fold # <<>>
                    THEN [i \in 1..Len(select_fold) |-> test_idxs[select_fold[i] + 1]]
                    ELSE test_idxs
  IN  [pc |-> "loop", fs |-> fs, computed |-> computed, run |-> run,
       sustainData |-> sustainData, N_S_max |-> N_S_max,
       N_iterations_MCMC |-> N_iterations_MCMC,
       test_idxs_arg |-> test_idxs, select_fold |-> select_fold,
       test_idxs |-> selected, Nfolds |-> Len(selected),
       selected_folds |-> SelectedFolds(test_idxs, select_fold), read |-> {},
       fold |-> 0, s |-> 0, indx_train |-> <<>>, indx_test |-> <<>>,
       ml_sequence_prev_EM |-> <<>>, ml_f_prev_EM |-> <<>>,
       ml_sequence_EM |-> <<>>, ml_f_EM |-> <<>>,
       samples_sequence |-> <<>>, samples_f |-> <<>>, samples_likelihood |-> <<>>,
       samples_likelihood_subj_test |-> <<>>,
       loaded |-> {}, calls |-> <<>>, evaluated |-> <<>>, raised |-> "none"]

\* The frame after the pass (fold, s): the next pass of the two loops, or the
\* return.
CvAdvance(fr) ==
  IF fr.s + 1 < fr.N_S_max THEN [fr EXCEPT !.s = @ + 1]
  ELSE IF fr.fold + 1 < fr.Nfolds THEN [fr EXCEPT !.fold = @ + 1, !.s = 0]
  ELSE [fr EXCEPT !.pc = "returned"]

\* The head of a pass of the fold loop (lines 188-194), run when s = 0.
CvFold(fr) ==
  IF fr.s # 0 THEN fr
  ELSE [fr EXCEPT !.indx_train = IndxTrain(CV_M, fr.test_idxs[fr.fold + 1]),
                  !.indx_test = fr.test_idxs[fr.fold + 1],
                  !.ml_sequence_prev_EM = <<>>,
                  !.ml_f_prev_EM = <<>>]

\* Lines 203-220: the checkpoint exists and is unpickled (line 207).  Reading
\* a key the dict does not hold raises KeyError.
CvLoad(fr) ==
  LET loaded_variables == fr.fs[<<fr.fold, fr.s>>]
  IN  IF \E q \in 1..Len(CvLoadKeys) : CvLoadKeys[q] \notin DOMAIN loaded_variables
        THEN [fr EXCEPT !.pc = "raised", !.raised = "KeyError",
                        !.read = @ \cup {<<fr.fold, fr.s>>}]
        ELSE CvAdvance(
               [fr EXCEPT
                  !.ml_sequence_EM = loaded_variables["ml_sequence_EM"],
                  !.ml_sequence_prev_EM = loaded_variables["ml_sequence_prev_EM"],
                  !.ml_f_EM = loaded_variables["ml_f_EM"],
                  !.ml_f_prev_EM = loaded_variables["ml_f_prev_EM"],
                  !.samples_likelihood = loaded_variables["samples_likelihood"],
                  !.samples_sequence = loaded_variables["samples_sequence"],
                  !.samples_f = loaded_variables["samples_f"],
                  !.samples_likelihood_subj_test =
                     loaded_variables["samples_likelihood_subj_test"],
                  !.loaded = @ \cup {<<fr.fold, fr.s>>},
                  !.read = @ \cup {<<fr.fold, fr.s>>}])

\* Lines 221-267: there is no checkpoint.  grown is what the Grower returns on
\* the train view and second where the chain moves to; the Sampler and the
\* evaluation are given the test view.
CvCompute(fr, grown, second) ==
  LET sustainData_train == Reindex(fr.sustainData, fr.indx_train)
      sustainData_test == Reindex(fr.sustainData, fr.indx_test)
      samples == CvChain(fr.N_iterations_MCMC, grown, second)
      samples_likelihood_subj_test ==
        EvaluateLikelihoodSetOfSamples(sustainData_test, samples, fr.N_iterations_MCMC)
      save_variables ==
        CvSaveVariables(grown, grown, samples, samples_likelihood_subj_test)
      unit == <<fr.fold, fr.s>>
  IN  CvAdvance(
        [fr EXCEPT
           !.ml_sequence_EM = grown.S,
           !.ml_f_EM = grown.f,
           !.samples_sequence = [t \in DOMAIN samples |-> samples[t].S],
           !.samples_f = [t \in DOMAIN samples |-> samples[t].f],
           !.samples_likelihood = [t \in DOMAIN samples |-> samples[t].likelihood],
           !.samples_likelihood_subj_test = samples_likelihood_subj_test,
           !.ml_sequence_prev_EM = grown.S,
           !.ml_f_prev_EM = grown.f,
           !.calls = @ \o
              << DriverCall("grower", fr.fold, fr.s, fr.indx_train,
                            fr.ml_sequence_prev_EM, fr.ml_f_prev_EM),
                 DriverCall("sampler", fr.fold, fr.s, fr.indx_test, grown.S, grown.f),
                 DriverCall("evaluate", fr.fold, fr.s, fr.indx_test,
                            [t \in DOMAIN samples |-> samples[t].S],
                            [t \in DOMAIN samples |-> samples[t].f]) >>,
           !.fs = DictSet(@, unit, save_variables),
           !.computed = DictSet(@, unit,
              [ml_sequence_EM |-> grown.S, ml_f_EM |-> grown.f,
               ml_sequence_prev_EM |-> fr.ml_sequence_prev_EM,
               ml_f_prev_EM |-> fr.ml_f_prev_EM,
               samples_sequence |-> [t \in DOMAIN samples |-> samples[t].S],
               samples_f |-> [t \in DOMAIN samples |-> samples[t].f],
               original_fold |-> fr.selected_folds[fr.fold + 1],
               run |-> fr.run]),
           !.evaluated =
              << [unit |-> unit,
                  sustainData_test |-> sustainData_test,
                  samples_sequence |-> [t \in DOMAIN samples |-> samples[t].S],
                  samples_f |-> [t \in DOMAIN samples |-> samples[t].f],
                  samples_likelihood_subj_test |-> samples_likelihood_subj_test,
                  likelihood |-> [i \in DOMAIN samples |->
                                    CalculateLikelihood(sustainData_test, samples[i].S,
                                                        samples[i].f)]] >>])

\* One pass of the subtype loop (lines 198-267), with the head of the fold
\* loop before it when the pass is the first of its fold.  In CvPass the chain
\* moves from the optimum to the other of the two states.
CvUnit(fr, grown, second) ==
  LET at == CvFold(fr)
  IN  IF <<at.fold, at.s>> \in DOMAIN at.fs
        THEN CvLoad(at)
        ELSE CvCompute(at, grown, second)

CvPass ==
  /\ cv.pc = "loop"
  /\ \E grown \in CvStates(cv.s + 1) :
       cv' = CvUnit(cv, grown, CHOOSE second \in CvStates(cv.s + 1) : second # grown)
  /\ UNCHANGED <<em, ml, gr, mc, asg, rs>>

\* The routine is called again on the same object and output folder, after
\* the call before it returned, raised or was stopped between two passes.
CvRerun ==
  /\ cv.pc \in {"loop", "returned", "raised"}
  /\ cv.run < MaxRuns
  /\ \E select_fold \in {<<>>, <<0>>, <<1>>} :
       cv' = CvBegin(cv.fs, cv.computed, cv.run + 1, cv.sustainData, cv.N_S_max,
                     cv.N_iterations_MCMC, cv.test_idxs_arg, select_fold)
  /\ UNCHANGED <<em, ml, gr, mc, asg, rs>>

\* The first call, on an output folder without checkpoints.
CvInit ==
  \E sustainData \in CvData, N_S_max \in 1..MaxNSmax, n \in 1..2,
     test_idxs \in CvTestIdxs, select_fold \in {<<>>, <<0>>, <<1>>} :
    cv = CvBegin(<<>>, <<>>, 1, sustainData, N_S_max, n, test_idxs, select_fold)

InitCV == CvInit /\ EMIdle /\ MLIdle /\ GrIdle /\ McIdle /\ AsgIdle /\ RsIdle
NextCV == CvPass \/ CvRerun
SpecCV == InitCV /\ [][NextCV]_vars

\* ------------------------------------------------------------------ run_sustain_algorithm

PrevAfterPassMutKeep(prev, opt) == prev

\* ml_sequence_prev_EM = ml_sequence_EM and ml_f_prev_EM = ml_f_EM (lines
\* 118-119): after a pass that ran the Grower the previous optimum is the
\* optimum of that pass.
PrevAfterPass(prev, opt) == opt

\* The keys read from a checkpoint, in the order of lines 88-96.
RsLoadKeys ==
  << "samples_likelihood", "samples_sequence", "samples_f",
     "ml_sequence_EM", "ml_sequence_prev_EM", "ml_f_EM", "ml_f_prev_EM" >>

\* save_variables as pickled (lines 132-145).  The four values returned by the
\* assigner are kept as one.
RsSaveVariables(opt, prev, samples, assigned) ==
  DictSet(DictSet(DictSet(DictSet(DictSet(DictSet(DictSet(DictSet(DictSet(DictSet(DictSet(<<>>,
    "samples_sequence", [t \in DOMAIN samples |-> samples[t].S]),
    "samples_f", [t \in DOMAIN samples |-> samples[t].f]),
    "samples_likelihood", [t \in DOMAIN samples |-> samples[t].likelihood]),
    "ml_subtype", assigned),
    "prob_ml_subtype", assigned),
    "ml_stage", assigned),
    "prob_ml_stage", assigned),
    "ml_sequence_EM", opt.S),
    "ml_sequence_prev_EM", prev.S),
    "ml_f_EM", opt.f),
    "ml_f_prev_EM", prev.f)

\* The frame when the subtype loop is entered (lines 69-74), on the output
\* folder fs; found is the set of subtype counts that have a checkpoint then.
RsBegin(fs, computed, run, N_S_max, N_iterations_MCMC) ==
  [pc |-> "loop", fs |-> fs, computed |-> computed, run |-> run,
   found |-> DOMAIN fs, N_S_max |-> N_S_max,
   N_iterations_MCMC |-> N_iterations_MCMC, s |-> 0,
   prev |-> [S |-> <<>>, f |-> <<>>], opt |-> [S |-> <<>>, f |-> <<>>],
   samples |-> <<>>, loaded |-> {}, calls |-> <<>>, raised |-> "none"]

\* Lines 77-98: the checkpoint exists.
RsLoad(fr) ==
  LET loaded_variables == fr.fs[fr.s]
  IN  IF \E q \in 1..Len(RsLoadKeys) : RsLoadKeys[q] \notin DOMAIN loaded_variables
        THEN [fr EXCEPT !.pc = "raised", !.raised = "KeyError"]
        ELSE [fr EXCEPT
                !.samples =
                   [t \in DOMAIN loaded_variables["samples_sequence"] |->
                      [S |-> loaded_variables["samples_sequence"][t],
                       f |-> loaded_variables["samples_f"][t],
                       likelihood |-> loaded_variables["samples_likelihood"][t]]],
                !.opt = [S |-> loaded_variables["ml_sequence_EM"],
                         f |-> loaded_variables["ml_f_EM"]],
                !.prev = [S |-> loaded_variables["ml_sequence_prev_EM"],
                          f |-> loaded_variables["ml_f_prev_EM"]],
                !.loaded = @ \cup {fr.s}]

\* Lines 99-119: there is no checkpoint.  grown is what the Grower returns and
\* second where the chain moves to.
RsCompute(fr, grown, second) ==
  [fr EXCEPT
     !.opt = [S |-> grown.S, f |-> grown.f],
     !.samples = CvChain(fr.N_iterations_MCMC, grown, second),
     !.prev = PrevAfterPass(fr.prev, [S |-> grown.S, f |-> grown.f]),
     !.calls = @ \o
        << DriverCall("grower", 0, fr.s, "all", fr.prev.S, fr.prev.f),
           DriverCall("sampler", 0, fr.s, "all", grown.S, grown.f) >>,
     !.computed = DictSet(@, fr.s,
        [ml_sequence_EM |-> grown.S, ml_f_EM |-> grown.f, run |-> fr.run])]

\* Lines 121-158 after the load or the computation at: the assigner is called
\* in both cases (line 126) and either returns or raises (line 348); the
\* checkpoint is written when there was none (lines 127-149).
RsFinish(fr, at, assigned) ==
  LET called == [at EXCEPT !.calls = Append(@,
                   DriverCall("assigner", 0, at.s, "all",
                              [t \in DOMAIN at.samples |-> at.samples[t].S],
                              [t \in DOMAIN at.samples |-> at.samples[t].f]))]
  IN  IF at.pc = "raised" THEN at
      ELSE IF assigned = "raised"
        THEN [called EXCEPT !.pc = "raised", !.raised = "ValueError"]
      ELSE
        LET saved == IF fr.s \in DOMAIN fr.fs THEN called
                     ELSE [called EXCEPT !.fs = DictSet(@, fr.s,
                             RsSaveVariables(called.opt, called.prev, called.samples,
                                             assigned))]
        IN  IF fr.s + 1 < fr.N_S_max THEN [saved EXCEPT !.s = @ + 1]
            ELSE [saved EXCEPT !.pc = "returned"]

\* One pass of the subtype loop (lines 74-158).
RsUnit(fr, grown, second, assigned) ==
  RsFinish(fr, IF fr.s \in DOMAIN fr.fs THEN RsLoad(fr) ELSE RsCompute(fr, grown, second),
           assigned)

RsPass ==
  /\ rs.pc = "loop"
  /\ \E grown \in CvStates(rs.s + 1), second \in CvStates(rs.s + 1),
        assigned \in {"returned", "raised"} :
       rs' = RsUnit(rs, grown, second, assigned)
  /\ UNCHANGED <<em, ml, gr, mc, asg, cv>>

\* The routine is called again on the same object and output folder, after
\* the call before it returned, raised or was stopped between two passes.
RsRerun ==
  /\ rs.pc \in {"loop", "returned", "raised"}
  /\ rs.run < MaxRuns
  /\ rs' = RsBegin(rs.fs, rs.computed, rs.run + 1, rs.N_S_max, rs.N_iterations_MCMC)
  /\ UNCHANGED <<em, ml, gr, mc, asg, cv>>

\* The first call, on an output folder without checkpoints.
RsInit ==
  \E N_S_max \in 1..(MaxNSmax + 1), n \in 1..2 :
    rs = RsBegin(<<>>, <<>>, 1, N_S_max, n)

InitRun == RsInit /\ EMIdle /\ MLIdle /\ GrIdle /\ McIdle /\ AsgIdle /\ CvIdle
NextRun == RsPass \/ RsRerun
SpecRun == InitRun /\ [][NextRun]_vars

\* ------------------------------------------------------------------ claims: multi-start

\* The startpoint whose run a multi-start routine hands back first: the only
\* entry of the arrays _find_ml and _find_ml_mixture2 return, and entry [0] of
\* those of _find_ml_mixture, which is the one the grower reads.
C3_Selected == ml.ix[1]

\* The returned run is the recorded run of the lowest startpoint index among
\* those whose final likelihood is the maximum over all N_startpoints runs.
C3_SelectsFirstMax ==
  /\ ml.startpoint = ml.N_startpoints
  /\ C3_Selected \in 0..(ml.N_startpoints - 1)
  /\ \A j \in 0..(ml.N_startpoints - 1) :
       ml.ml_likelihood_mat[C3_Selected] >= ml.ml_likelihood_mat[j]
  /\ \A j \in 0..(C3_Selected - 1) :
       ml.ml_likelihood_mat[j] < ml.ml_likelihood_mat[C3_Selected]
  /\ ml.ml_likelihood[1] = ml.ml_likelihood_mat[C3_Selected]
  /\ ml.ml_sequence[1] = ml.ml_sequence_mat[C3_Selected]
  /\ ml.ml_f[1] = ml.ml_f_mat[C3_Selected]

\* C3 as stated: each multi-start routine runs the Optimizer (_perform_em)
\* exactly N_startpoints times, and selects the run of maximum final likelihood,
\* the lowest startpoint index on ties.
C3_Original ==
  ml.returned =>
    /\ ml.n_perform_em = ml.N_startpoints
    /\ C3_SelectsFirstMax

\* C3 amended: each multi-start routine makes exactly N_startpoints passes and
\* records one Optimizer run per pass; _find_ml and _find_ml_mixture call
\* _perform_em once per pass, _find_ml_mixture2 three times per pass (one fit per
\* cluster to build the start, then the mixture run); the run selected is the
\* recorded run of maximum final likelihood, the lowest startpoint index on ties.
C3_MultiStart ==
  /\ ml.startpoint <= ml.N_startpoints
  /\ ml.returned <=> (ml.startpoint = ml.N_startpoints)
  /\ ml.n_perform_em =
       (IF ml.routine = "find_ml_mixture2" THEN 3 ELSE 1) * ml.startpoint
  /\ ml.returned => C3_SelectsFirstMax

\* _find_ml_mixture2 has returned after two passes whose runs tied on the
\* likelihood with different sequences.
C3_Witness ==
  /\ ml.routine = "find_ml_mixture2"
  /\ ml.returned
  /\ ml.N_startpoints = 2
  /\ ml.ml_likelihood_mat[0] = ml.ml_likelihood_mat[1]
  /\ ml.ml_sequence_mat[0] # ml.ml_sequence_mat[1]
  /\ C3_Selected = 0

\* ------------------------------------------------------------------ claims: grower

\* The number of subjects hard-assigned to previous subtype j (1-based).
C4_Assigned(j) ==
  Cardinality({ i \in 0..(gr.M - 1) : gr.ml_cluster_subj[i] = j })

\* C4: in the grower for N_S > 1, a previous subtype with at most one
\* hard-assigned subject is skipped without invoking the 2-way split or the
\* Optimizer for it and without cutting the loop short: every previous subtype of
\* higher index is still handled, those with more than one subject being
\* evaluated as split candidates; the call ends only after the last index.
C4_SkipsSmallClusters ==
  gr.pc \in {"split", "returned", "raised"} =>
    /\ Len(gr.log) = gr.ix_cluster_split
    /\ (gr.pc \in {"returned", "raised"}) <=> (Len(gr.log) = gr.N_S - 1)
    /\ \A j \in 1..Len(gr.log) :
         /\ gr.log[j].this_N_cluster = C4_Assigned(j)
         /\ C4_Assigned(j) <= 1 =>
              /\ ~gr.log[j].split
              /\ gr.log[j].n_find_ml_mixture2 = 0
              /\ gr.log[j].n_find_ml_mixture = 0
         /\ C4_Assigned(j) > 1 =>
              /\ gr.log[j].split
              /\ gr.log[j].n_find_ml_mixture2 = 1
              /\ gr.log[j].n_find_ml_mixture = 1

\* The first previous subtype had exactly one subject and was skipped, the
\* second was then evaluated, and the grower returned.
C4_Witness ==
  /\ gr.pc = "returned"
  /\ gr.N_S = 3
  /\ C4_Assigned(1) = 1
  /\ ~gr.log[1].split
  /\ gr.log[2].split

\* The split indices (1-based) evaluated so far.
C5_Evaluated == { j \in 1..Len(gr.log) : gr.log[j].split }

\* C5: in the grower for N_S > 1, the retained, and finally returned, (S, f,
\* log-likelihood) is that of the evaluated split candidate with the highest
\* refined log-likelihood, the lowest split index among equals: a candidate
\* replaces the retained one only when its likelihood is strictly greater than
\* that of every earlier candidate.
C5_KeepsBestCandidate ==
  gr.pc \in {"split", "returned", "raised"} =>
    /\ \A j \in C5_Evaluated :
         gr.log[j].replaced <=>
           \A i \in C5_Evaluated :
             i < j => gr.log[i].this_ml_likelihood < gr.log[j].this_ml_likelihood
    /\ (C5_Evaluated = {}) => (~gr.bound /\ gr.ml_likelihood = NegInf)
    /\ (gr.pc = "returned") => (C5_Evaluated # {})
    /\ (C5_Evaluated # {}) =>
         \E b \in C5_Evaluated :
           /\ \A j \in C5_Evaluated :
                /\ gr.log[b].this_ml_likelihood >= gr.log[j].this_ml_likelihood
                /\ j < b => gr.log[j].this_ml_likelihood < gr.log[b].this_ml_likelihood
           /\ gr.bound
           /\ gr.ml_likelihood = gr.log[b].this_ml_likelihood
           /\ gr.ml_sequence = gr.log[b].this_ml_sequence
           /\ gr.ml_f = gr.log[b].this_ml_f

\* The grower returned after two candidates of equal likelihood and different
\* sequences were evaluated; the first is the one returned.
C5_Witness ==
  /\ gr.pc = "returned"
  /\ C5_Evaluated = {1, 2}
  /\ gr.log[1].this_ml_likelihood = gr.log[2].this_ml_likelihood
  /\ gr.log[1].this_ml_sequence # gr.log[2].this_ml_sequence
  /\ gr.ml_sequence = gr.log[1].this_ml_sequence

\* ------------------------------------------------------------------ claims: _perform_em

\* C1: the likelihood trace entries recorded for steps 0..k (k the last executed
\* step) are non-decreasing: entry j+1 >= entry j for all recorded consecutive
\* entries, whatever candidates _optimise_parameters returned.
C1_TraceNonDecreasing ==
  \A j \in 0..(em.iteration - 2) :
    /\ ~IsNaN(em.samples_likelihood[j])
    /\ ~IsNaN(em.samples_likelihood[j + 1])
    /\ em.samples_likelihood[j + 1] >= em.samples_likelihood[j]

\* A finished run of at least three steps whose trace went strictly up after a
\* step that kept the likelihood.
C1_Witness ==
  /\ em.terminate = 1
  /\ em.iteration >= 3
  /\ \E j \in 0..(em.iteration - 3) :
       /\ em.samples_likelihood[j + 1] = em.samples_likelihood[j]
       /\ em.samples_likelihood[j + 2] > em.samples_likelihood[j + 1]

\* The relative change |ll' - ll| / max(ll', ll) of the claim is below 1e-6.
C2_RelChangeBelowTol(cand, cur) ==
  /\ cand # NaN
  /\ cur # NaN
  /\ LET m == IF cand >= cur THEN cand ELSE cur
         d == IF cand >= cur THEN cand - cur ELSE cur - cand
     IN  /\ m # 0
         /\ d <= ((IF m < 0 THEN -m ELSE m) - 1) \div 1000000

\* C2: _perform_em always terminates: it has stopped exactly when the last step's
\* relative likelihood change was below 1e-6 or 100 steps were made, and until
\* then its next pass can always be made; every pass calls _optimise_parameters
\* once, so the calls number the passes and never exceed 100.
C2_Terminates ==
  /\ em.n_optimise_calls = em.iteration
  /\ em.n_optimise_calls <= 100
  /\ (em.terminate = 1) <=>
        /\ em.iteration >= 1
        /\ \/ C2_RelChangeBelowTol(em.candidate_likelihood, em.em_prev.likelihood)
           \/ em.iteration = 100
  /\ (em.terminate = 0) => ENABLED PerformEMStep

\* A run that stopped on convergence before the step limit, after at least one
\* step that did not converge.
C2_Witness ==
  /\ em.terminate = 1
  /\ em.HAS_converged
  /\ em.iteration \in 2..99

\* A run that never converged and stopped after exactly 100 steps.
C2_WitnessMaxIter ==
  /\ em.terminate = 1
  /\ ~em.HAS_converged
  /\ em.iteration = 100

\* ------------------------------------------------------------------ claims: MCMC tuner

\* C6.  Every call of _estimate_uncertainty_sustain_model performs exactly four
\* chain runs in this order: three tuning runs of 10,000 steps from the given
\* (seq_init, f_init), the first with the default scales (sequence 1, fraction
\* 0.01) and each later one with the scales re-estimated from the samples of
\* the run before it; then one run of N_iterations_MCMC steps with the scales
\* re-estimated from the third tuning run.  Whatever the samples, no run is
\* added or dropped: a call that has not returned has made at most three runs,
\* all of them tuning runs.
C6_FourRunsInOrder ==
  /\ mc.pc = "optimise" =>
       /\ Len(mc.calls) <= 3
       /\ \A k \in 1..Len(mc.calls) : mc.calls[k].n_iterations = 10000
  /\ mc.pc = "returned" =>
       /\ Len(mc.calls) = 4
       /\ \A k \in 1..4 :
            /\ mc.calls[k].seq_init = mc.seq_init
            /\ mc.calls[k].f_init = mc.f_init
       /\ \A k \in 1..3 : mc.calls[k].n_iterations = 10000
       /\ mc.calls[1].seq_sigma = <<1, 1>>
       /\ mc.calls[1].f_sigma = <<1, 10000>>
       /\ \A k \in 1..3 :
            /\ mc.calls[k + 1].seq_sigma = SeqSigmaCurrentpass(mc.calls[k].samples, mc.N_S)
            /\ mc.calls[k + 1].f_sigma = FSigmaCurrentpass(mc.calls[k].samples, mc.N_S)
       /\ mc.calls[4].n_iterations = mc.N_iterations_MCMC
       /\ mc.samples = mc.calls[4].samples

\* A call has returned after tuning runs whose samples gave three different
\* pairs of scales, and N_iterations_MCMC is not the tuning length.
C6_Witness ==
  /\ mc.pc = "returned"
  /\ Len(mc.calls) = 4
  /\ mc.calls[3].seq_sigma # mc.calls[4].seq_sigma
  /\ mc.calls[2].seq_sigma # mc.calls[3].seq_sigma
  /\ mc.calls[2].f_sigma # mc.calls[4].f_sigma
  /\ mc.calls[4].n_iterations = 2

\* The standard deviation (ddof = 1) of the positions of stage j - 1 in row s
\* over a chain, squared.
C7_Estimated(samples, s, j) ==
  StdSq(SamplesPosition(samples, s, j), ChainCounts(samples), 1)

\* sigma^2 < 0.01^2 for the rational sigma_sq.
C7_Below(sigma_sq) == sigma_sq[1] <= (sigma_sq[2] - 1) \div 10000

\* C7.  After every tuning pass, each entry of the sequence scale estimated
\* below 0.01 is exactly 0.01 and every other entry is as estimated; so every
\* entry of the sequence scale handed to a later run, the full run included, is
\* at least 0.01.
C7_SequenceScaleFloored ==
  \A k \in 2..Len(mc.calls) :
    \A s \in 1..mc.N_S, j \in 1..MC_N :
      LET est   == C7_Estimated(mc.calls[k - 1].samples, s, j)
          sigma == mc.calls[k].seq_sigma[s][j]
      IN  /\ C7_Below(est) => sigma = <<1, 10000>>
          /\ ~C7_Below(est) => sigma = est
          /\ ~C7_Below(sigma)

\* The full run was handed a sequence scale with a floored entry and an entry
\* left as estimated.
C7_Witness ==
  /\ mc.pc = "returned"
  /\ \E s \in 1..mc.N_S, j \in 1..MC_N :
       /\ C7_Below(C7_Estimated(mc.calls[3].samples, s, j))
       /\ mc.calls[4].seq_sigma[s][j] = <<1, 10000>>
  /\ \E s \in 1..mc.N_S, j \in 1..MC_N :
       /\ ~C7_Below(C7_Estimated(mc.calls[3].samples, s, j))
       /\ mc.calls[4].seq_sigma[s][j] # <<1, 10000>>

\* ------------------------------------------------------------------ claims: posterior assigner

\* Subject m's averaged subtype posterior contains NaN.
C8_HasNaN(m) == \E s \in 0..(AS_N_S - 1) : RIsNaN(asg.prob_subtype[m][s])

\* C8.  When the averaged subtype posterior of a subject contains NaN, the call
\* of subtype_and_stage_individuals completes without raising, that subject's
\* ml_subtype, prob_ml_subtype, ml_stage and prob_ml_stage are all NaN, and
\* every other subject is assigned.
C8_NaNSubjectGetsNaN ==
  (asg.pc \in {"returned", "raised"} /\ \E m \in 0..(AS_M - 1) : C8_HasNaN(m)) =>
    /\ asg.pc = "returned"
    /\ \A m \in 0..(AS_M - 1) :
         IF C8_HasNaN(m)
           THEN /\ IsNaN(asg.ml_subtype[m])
                /\ RIsNaN(asg.prob_ml_subtype[m])
                /\ IsNaN(asg.ml_stage[m])
                /\ RIsNaN(asg.prob_ml_stage[m])
           ELSE /\ ~IsNaN(asg.ml_subtype[m])
                /\ ~RIsNaN(asg.prob_ml_subtype[m])
                /\ ~IsNaN(asg.ml_stage[m])
                /\ ~RIsNaN(asg.prob_ml_stage[m])

\* The arithmetic mean of x[1..n]; NaN when an entry is.
RECURSIVE C9_Sum(_, _)
C9_Sum(x, n) == IF n = 0 THEN <<0, 1>> ELSE RAdd(C9_Sum(x, n - 1), x[n])

C9_Mean(x) == RDiv(C9_Sum(x, Len(x)), <<Len(x), 1>>)

\* C9.  After the draws 0..i have been folded in, the running subtype
\* posterior and the running (stage, subtype) posterior are the arithmetic
\* means of the i + 1 normalised per-draw posteriors: every draw has the weight
\* 1/(i + 1), and 1/N_samples after the last draw.
C9_RunningAverageIsMean ==
  asg.i >= 1 =>
    \A m \in 0..(AS_M - 1), s \in 0..(AS_N_S - 1) :
      /\ asg.prob_subtype[m][s] =
           C9_Mean([d \in 1..asg.i |-> asg.draws[d].total_prob_subtype_norm[m][s]])
      /\ \A k \in 0..AS_N :
           asg.prob_subtype_stage[m][k][s] =
             C9_Mean([d \in 1..asg.i |-> asg.draws[d].total_prob_subtype_stage_norm[m][k][s]])

\* Three draws have been folded in and a subject's posterior was not the same
\* in all of them.
C9_Witness ==
  /\ asg.pc = "subjects"
  /\ asg.i = 3
  /\ \E m \in 0..(AS_M - 1), s \in 0..(AS_N_S - 1) :
       /\ ~RIsNaN(asg.prob_subtype[m][s])
       /\ asg.draws[1].total_prob_subtype_norm[m][s] = asg.draws[2].total_prob_subtype_norm[m][s]
       /\ asg.draws[2].total_prob_subtype_norm[m][s] # asg.draws[3].total_prob_subtype_norm[m][s]

\* t is the lowest index of v[0..n] that attains the maximum of v.
C10_LowestArgMax(v, n, t) ==
  /\ t \in 0..n
  /\ \A j \in 0..n : ~RLt(v[t], v[j])
  /\ \A j \in 0..(t - 1) : RLt(v[j], v[t])

\* Subject m's averaged (stage, subtype) posterior for the subtype s.
C10_StagePosterior(m, s) == [k \in 0..AS_N |-> asg.prob_subtype_stage[m][k][s]]

\* C10.  For every subject handled whose averaged posterior has no NaN:
\* ml_subtype is the lowest index attaining the maximum of the averaged subtype
\* posterior and prob_ml_subtype is that maximum; ml_stage is the lowest stage
\* in 0..N attaining the maximum of the averaged (stage, subtype) posterior of
\* the chosen subtype, and prob_ml_stage is that maximum.
C10_AssignsLowestArgMax ==
  asg.pc \in {"subjects", "returned", "raised"} =>
    \A m \in 0..(asg.i_subject - 1) :
      ~C8_HasNaN(m) =>
        /\ C10_LowestArgMax(asg.prob_subtype[m], AS_N_S - 1, asg.ml_subtype[m])
        /\ asg.prob_ml_subtype[m] = asg.prob_subtype[m][asg.ml_subtype[m]]
        /\ C10_LowestArgMax(C10_StagePosterior(m, asg.ml_subtype[m]), AS_N, asg.ml_stage[m])
        /\ asg.prob_ml_stage[m] = C10_StagePosterior(m, asg.ml_subtype[m])[asg.ml_stage[m]]

\* The call has returned; one subject's averaged subtype posterior is tied
\* between the subtypes and its stage posterior between two stages, and
\* another subject was assigned subtype 1.
C10_Witness ==
  /\ asg.pc = "returned"
  /\ \E m \in 0..(AS_M - 1) :
       /\ asg.prob_subtype[m][0] = asg.prob_subtype[m][1]
       /\ asg.ml_subtype[m] = 0
       /\ \E k \in (asg.ml_stage[m] + 1)..AS_N :
            C10_StagePosterior(m, 0)[k] = C10_StagePosterior(m, 0)[asg.ml_stage[m]]
  /\ \E m \in 0..(AS_M - 1) : asg.ml_subtype[m] = 1

\* ------------------------------------------------------------------ claims: cross-validation

\* The running call of cross_validate_sustain_model has been through the pass
\* of the unit (fold, subtype count).
C11_Handled(unit) ==
  \/ cv.fold > unit[1]
  \/ cv.fold = unit[1] /\ cv.s > unit[2]
  \/ cv.pc = "raised" /\ cv.fold = unit[1] /\ cv.s = unit[2]
  \/ cv.pc = "returned" /\ unit[1] < cv.Nfolds

\* C11.  cross_validate_sustain_model resumes from a partial run: for every
\* (fold, subtype count) whose checkpoint was written by an earlier call, a
\* later call that comes to that unit loads the checkpoint without error, does
\* not call the Grower, the Sampler or the evaluation for it, and the
\* checkpoint gives back the optimum, the previous optimum and the chain that
\* were computed.
C11_ResumesFromCheckpoint ==
  \A unit \in DOMAIN cv.fs :
    (cv.computed[unit].run < cv.run /\ C11_Handled(unit)) =>
      /\ unit \in cv.loaded
      /\ \A q \in 1..Len(cv.calls) : <<cv.calls[q].fold, cv.calls[q].s>> # unit
      /\ \A q \in 1..Len(CvLoadKeys) : CvLoadKeys[q] \in DOMAIN cv.fs[unit]
      /\ cv.fs[unit]["ml_sequence_EM"] = cv.computed[unit].ml_sequence_EM
      /\ cv.fs[unit]["ml_f_EM"] = cv.computed[unit].ml_f_EM
      /\ cv.fs[unit]["samples_sequence"] = cv.computed[unit].samples_sequence
      /\ cv.fs[unit]["samples_f"] = cv.computed[unit].samples_f

\* ------------------------------------------------------------------ claims: run_sustain_algorithm

\* C12.  In a call of run_sustain_algorithm that finds checkpoints for the
\* subtype counts 0..k-1 and none for k, the Grower and the Sampler are not
\* called for the counts 0..k-1, and the previous optimum handed to the
\* Grower for a count is the optimum (ml_sequence_EM, ml_f_EM) that was
\* computed for the count before it (nothing for the count 0), whether that
\* was computed by this call or read from a checkpoint.
C12_ResumedGrowerInput ==
  \A k \in 0..(rs.N_S_max - 1) :
    ((\A j \in 0..(k - 1) : j \in rs.found) /\ k \notin rs.found) =>
      \A q \in 1..Len(rs.calls) :
        LET c == rs.calls[q]
        IN  /\ c.op \in {"grower", "sampler"} => c.s >= k
            /\ (c.op = "grower" /\ c.s = 0) => (c.seq = <<>> /\ c.f = <<>>)
            /\ (c.op = "grower" /\ c.s > 0) =>
                 /\ c.seq = rs.computed[c.s - 1].ml_sequence_EM
                 /\ c.f = rs.computed[c.s - 1].ml_f_EM

\* A call that found the checkpoint of the count 0, written by an earlier call,
\* has run the Grower for the count 1; the optimum of the count 0 was the
\* second of the two the Grower can return.
C12_Witness ==
  /\ rs.run = 2
  /\ rs.found = {0}
  /\ rs.loaded = {0}
  /\ rs.computed[0].run = 1
  /\ rs.computed[0].ml_sequence_EM = [s \in 0..0 |-> <<1, 0>>]
  /\ \E q \in 1..Len(rs.calls) : rs.calls[q].op = "grower" /\ rs.calls[q].s = 1

\* ------------------------------------------------------------------ claims: cross-validation folds

\* The set of the entries of an index array.
C13_Set(index) == { index[j] : j \in 1..Len(index) }

\* train is the complement of test in the subject indices 0..CV_M - 1.
C13_Complement(train, test) ==
  /\ C13_Set(train) = (0..(CV_M - 1)) \ C13_Set(test)
  /\ C13_Set(train) \cap C13_Set(test) = {}
  /\ C13_Set(test) \subseteq 0..(CV_M - 1) =>
       C13_Set(train) \cup C13_Set(test) = 0..(CV_M - 1)

\* C13.  For every fold a call of cross_validate_sustain_model processes, the
\* train indices are exactly the subject indices 0..M-1 that are not among the
\* fold's test indices, so train and test are disjoint and together are all
\* the subjects; every call of the Grower is on the train view of its fold,
\* and the Grower call for the first subtype count of a fold is handed an
\* empty previous optimum.
C13_TrainIsComplementOfTest ==
  /\ (cv.pc \in {"loop", "raised"} /\ (cv.s > 0 \/ cv.pc = "raised")) =>
       /\ cv.indx_test = cv.test_idxs[cv.fold + 1]
       /\ C13_Complement(cv.indx_train, cv.indx_test)
  /\ cv.pc # "idle" =>
       \A q \in 1..Len(cv.calls) :
         LET c == cv.calls[q]
         IN  c.op = "grower" =>
               /\ C13_Complement(c.view, cv.test_idxs[c.fold + 1])
               /\ c.s = 0 => (c.seq = <<>> /\ c.f = <<>>)

\* The Grower has been called for the first subtype count of the second fold
\* after it was called for the second subtype count of the first fold, and the
\* second fold has two test subjects.
C13_Witness ==
  /\ cv.pc # "idle"
  /\ \E q \in 1..Len(cv.calls), q0 \in 1..Len(cv.calls) :
       /\ q0 < q
       /\ cv.calls[q0].op = "grower" /\ cv.calls[q0].fold = 0 /\ cv.calls[q0].s = 1
       /\ cv.calls[q0].seq # <<>>
       /\ cv.calls[q].op = "grower" /\ cv.calls[q].fold = 1 /\ cv.calls[q].s = 0
       /\ Len(cv.test_idxs[2]) = 2
       /\ Len(cv.calls[q].view) = 1

\* ------------------------------------------------------------------ claims: held-out likelihood

\* The total mixture probability of the subject m of the view sustainData under
\* (S, f): the sum over the subtypes s and the stages k of f[s] times the
\* probability of the subject's data at stage k of subtype s.
C14_TotalProb(sustainData, S, f, m) ==
  C9_Sum([s \in 1..Cardinality(DOMAIN S) |->
            C9_Sum([k \in 1..(AS_N + 1) |->
                      RMul(f[s - 1],
                           CalculateLikelihoodStage(sustainData, S[s - 1])[m][k - 1])],
                   AS_N + 1)],
         Cardinality(DOMAIN S))

\* y is the natural logarithm of x, for rationals x and y: the logarithm of a
\* positive rational other than 1 is irrational, and that of 0 is not finite.
C14_IsLogOf(y, x) == x = <<1, 1>> /\ y = <<0, 1>>

\* The held-out result c has one entry per (test subject, chain sample).
C14_Shape(c) ==
  /\ DOMAIN c.samples_likelihood_subj_test = DOMAIN c.sustainData_test
  /\ \A m \in DOMAIN c.sustainData_test :
       DOMAIN c.samples_likelihood_subj_test[m] = DOMAIN c.samples_sequence

\* C14 as stated: for every fold and subtype count, the held-out result (in
\* every state, the one computed last) has one entry per (test subject, chain
\* sample), and that entry is the logarithm of the subject's total mixture
\* probability under the sample's (S, f).
C14_EntryIsLogLikelihood ==
  cv.pc # "idle" =>
    \A q \in 1..Len(cv.evaluated) :
      LET c == cv.evaluated[q]
      IN  /\ C14_Shape(c)
          /\ \A m \in DOMAIN c.sustainData_test, i \in DOMAIN c.samples_sequence :
               C14_IsLogOf(c.samples_likelihood_subj_test[m][i],
                           C14_TotalProb(c.sustainData_test, c.samples_sequence[i],
                                         c.samples_f[i], m))

\* C14, amended.  For every fold and subtype count, the held-out result has one
\* entry per (test subject, chain sample), and that entry is the subject's
\* total mixture probability under the sample's (S, f), not its logarithm; it
\* is what is written to the checkpoint.
C14_EntryIsTotalProbability ==
  cv.pc # "idle" =>
    \A q \in 1..Len(cv.evaluated) :
      LET c == cv.evaluated[q]
      IN  /\ C14_Shape(c)
          /\ \A m \in DOMAIN c.sustainData_test, i \in DOMAIN c.samples_sequence :
               c.samples_likelihood_subj_test[m][i] =
                 C14_TotalProb(c.sustainData_test, c.samples_sequence[i], c.samples_f[i], m)
          /\ cv.fs[c.unit]["samples_likelihood_subj_test"] = c.samples_likelihood_subj_test

\* A unit with two subtypes, two test subjects and a chain of two samples has
\* been computed; a test subject's total probability differs between the two
\* samples and is neither 0 nor 1 under the first.
C14_Witness ==
  /\ cv.pc # "idle"
  /\ \E q \in 1..Len(cv.evaluated) :
       LET c == cv.evaluated[q]
       IN  /\ c.unit[2] = 1
           /\ Cardinality(DOMAIN c.sustainData_test) = 2
           /\ Cardinality(DOMAIN c.samples_sequence) = 2
           /\ \E m \in DOMAIN c.sustainData_test :
                /\ c.samples_likelihood_subj_test[m][0] # c.samples_likelihood_subj_test[m][1]
                /\ c.samples_likelihood_subj_test[m][0] \notin {<<0, 1>>, <<1, 1>>}

\* ------------------------------------------------------------------ claims: permutation rows

\* row is a permutation of the stages 0..N - 1.
C15_IsPermutation(row) ==
  /\ DOMAIN row = 1..N_stages
  /\ { row[k] : k \in 1..N_stages } = 0..(N_stages - 1)

\* Every row of the sequence matrix S is a permutation.
C15_Rows(S) == \A s \in DOMAIN S : C15_IsPermutation(S[s])

\* From every start whose rows are permutations, with every candidate of
\* _optimise_parameters a matrix of permutation rows, _perform_em returns a
\* matrix of permutation rows with as many rows as the start.
C15_Optimizer ==
  \A k \in EMStartKeys :
    C15_Rows(k[1]) =>
      \A r \in EMResultTable[k] :
        DOMAIN r.ml_sequence = DOMAIN k[1] /\ C15_Rows(r.ml_sequence)

\* Every ml_sequence array _find_ml_mixture2 and _find_ml_mixture can return,
\* over all the runs of their passes, holds matrices of permutation rows: two
\* rows for the 2-way split, as many as seq_init has for _find_ml_mixture.
C15_MultiStart ==
  /\ \A k \in DOMAIN Mixture2ReturnTable :
       \A r \in Mixture2ReturnTable[k] :
         \A q \in 1..Len(r) : Len(r[q]) = 2 /\ C15_Rows(r[q])
  /\ \A k \in DOMAIN MixtureReturnTable :
       \A r \in MixtureReturnTable[k] :
         \A q \in 1..Len(r.ml_sequence) :
           Len(r.ml_sequence[q]) = Len(k[1]) /\ C15_Rows(r.ml_sequence[q])

\* C15.  With _initialise_sequence and _optimise_parameters returning only
\* permutation rows, every sequence matrix the core builds, hands to the
\* Optimizer, or returns from the Optimizer, the 2-way split, the multi-start
\* routines and the Grower has every row a permutation of {0..N-1}: the start
\* and the result of every _perform_em run, every selected result of a
\* multi-start routine, and in every call of the Grower the previous optimum,
\* the 2-way split, the spliced N_S-row initializer, the refined candidate and
\* the optimum.
C15_RowsArePermutations ==
  /\ C15_Optimizer
  /\ C15_MultiStart
  /\ gr.pc # "idle" =>
       /\ C15_Rows(gr.ml_sequence_prev)
       /\ \A q \in 1..Len(gr.log) :
            gr.log[q].split =>
              /\ C15_Rows(gr.log[q].this_ml_sequence_split)
              /\ Len(gr.log[q].this_seq_init) = gr.N_S
              /\ C15_Rows(gr.log[q].this_seq_init)
              /\ Len(gr.log[q].this_ml_sequence) = gr.N_S
              /\ C15_Rows(gr.log[q].this_ml_sequence)
       /\ gr.bound => C15_Rows(gr.ml_sequence)

\* The Grower has returned a three-subtype optimum after splitting the second
\* subtype, whose row the spliced initializer replaced by a different one.
C15_Witness ==
  /\ gr.pc = "returned"
  /\ gr.N_S = 3
  /\ Len(gr.log) = 2
  /\ gr.log[2].split
  /\ gr.log[2].replaced
  /\ gr.log[2].this_seq_init[2] # gr.ml_sequence_prev[2]
  /\ gr.log[2].this_seq_init[3] # gr.log[2].this_seq_init[2]

\* ------------------------------------------------------------------ claims: starts of _find_ml_mixture

\* C16 as stated: the N_startpoints runs of _find_ml_mixture start from
\* different initialisations, exactly one of which is the provided
\* (seq_init, f_init).
C16_StartsDiffer ==
  (ml.routine = "find_ml_mixture" /\ ml.returned) =>
    /\ \A p \in 1..Len(ml.starts), q \in 1..Len(ml.starts) :
         p # q => ml.starts[p] # ml.starts[q]
    /\ Cardinality({ q \in 1..Len(ml.starts) :
                       ml.starts[q] = EMStart(ml.seq_init, ml.f_init) }) = 1

\* C16, amended.  Every one of the N_startpoints runs of _find_ml_mixture
\* starts from the provided (seq_init, f_init); the runs differ only in what
\* the Optimizer does from that start.
C16_StartsAreTheInitializer ==
  ml.routine = "find_ml_mixture" =>
    /\ Len(ml.starts) = ml.startpoint
    /\ ml.returned => Len(ml.starts) = ml.N_startpoints
    /\ \A q \in 1..Len(ml.starts) : ml.starts[q] = EMStart(ml.seq_init, ml.f_init)

\* _find_ml_mixture has returned after two runs that ended at different
\* results.
C16_Witness ==
  /\ ml.routine = "find_ml_mixture"
  /\ ml.returned
  /\ ml.N_startpoints = 2
  /\ ml.ml_sequence_mat[0] # ml.ml_sequence_mat[1]
  /\ ml.ml_likelihood_mat[0] # ml.ml_likelihood_mat[1]

\* ------------------------------------------------------------------ claims: likelihood aggregates

\* The entry for the subject m and the subtype s of total_prob_cluster as
\* returned for M subjects and N_S subtypes: np.squeeze has dropped the axes of
\* length one.
C17_ClusterEntry(total, M, N_S, m, s) ==
  IF M = 1 /\ N_S = 1 THEN total
  ELSE IF M = 1 THEN total[s]
  ELSE IF N_S = 1 THEN total[m]
  ELSE total[m][s]

\* The aggregates lik returned by _calculate_likelihood for the view
\* sustainData and the sample (S, f) are consistent with each other and with
\* the unweighted stage likelihoods.
C17_Consistent(lik, sustainData, S, f) ==
  LET M == Cardinality(DOMAIN sustainData)
      N_S == Cardinality(DOMAIN S)
      p == lik.p_perm_k
      cluster(m, s) == C17_ClusterEntry(lik.total_prob_cluster, M, N_S, m, s)
  IN  \A m \in 0..(M - 1) :
        /\ \A k \in 0..AS_N, s \in 0..(N_S - 1) :
             p[m][k][s] = CalculateLikelihoodStage(sustainData, S[s])[m][k]
        /\ \A s \in 0..(N_S - 1) :
             cluster(m, s) =
               C9_Sum([k \in 1..(AS_N + 1) |-> RMul(p[m][k - 1][s], f[s])], AS_N + 1)
        /\ \A k \in 0..AS_N :
             lik.total_prob_stage[m][k] =
               C9_Sum([s \in 1..N_S |-> RMul(p[m][k][s - 1], f[s - 1])], N_S)
        /\ lik.total_prob_subj[m] =
             C9_Sum([k \in 1..(AS_N + 1) |-> lik.total_prob_stage[m][k - 1]], AS_N + 1)
        /\ lik.total_prob_subj[m] = C9_Sum([s \in 1..N_S |-> cluster(m, s - 1)], N_S)

\* C17.  For every S, f and per-stage tensor p, the aggregates returned by
\* _calculate_likelihood are consistent: the per-subject-per-subtype total is
\* the sum over the stages of p[m,k,s]*f[s], the per-subject-per-stage total
\* the sum over the subtypes of p[m,k,s]*f[s], the per-subject total both the
\* sum over the stages of the per-stage totals and the sum over the subtypes
\* of the per-subtype totals, and the tensor returned is the unweighted p.
C17_AggregatesConsistent ==
  cv.pc # "idle" =>
    \A q \in 1..Len(cv.evaluated) :
      LET c == cv.evaluated[q]
      IN  \A i \in DOMAIN c.samples_sequence :
            C17_Consistent(c.likelihood[i], c.sustainData_test,
                           c.samples_sequence[i], c.samples_f[i])

\* _calculate_likelihood has been applied to two test subjects and a sample
\* of two subtypes with unequal fractions; a subject has a positive total
\* under each subtype, and the two differ.
C17_Witness ==
  /\ cv.pc # "idle"
  /\ \E q \in 1..Len(cv.evaluated) :
       LET c == cv.evaluated[q]
       IN  /\ Cardinality(DOMAIN c.sustainData_test) = 2
           /\ \E i \in DOMAIN c.samples_sequence :
                /\ Cardinality(DOMAIN c.samples_sequence[i]) = 2
                /\ c.samples_f[i][0] # c.samples_f[i][1]
                /\ \E m \in 0..1 :
                     /\ c.likelihood[i].total_prob_cluster[m][0] # <<0, 1>>
                     /\ c.likelihood[i].total_prob_cluster[m][1] # <<0, 1>>
                     /\ c.likelihood[i].total_prob_cluster[m][0] #
                          c.likelihood[i].total_prob_cluster[m][1]

\* ------------------------------------------------------------------ claims: _perform_em accept rule

\* The (current_sequence, current_f, current_likelihood) of the frame.
C18_Current ==
  [sequence |-> em.current_sequence, f |-> em.current_f,
   likelihood |-> em.current_likelihood]

\* The candidate of the last pass.
C18_Candidate ==
  [sequence |-> em.candidate_sequence, f |-> em.candidate_f,
   likelihood |-> em.candidate_likelihood]

\* The candidate likelihood of the last pass is strictly greater than the
\* current likelihood the pass began with, as floats compare: false when
\* either is NaN.
C18_StrictlyGreater ==
  /\ em.candidate_likelihood # NaN
  /\ em.em_prev.likelihood # NaN
  /\ em.candidate_likelihood > em.em_prev.likelihood

\* C18.  After every pass of _perform_em: the current (S, f, likelihood) is
\* the candidate exactly when the candidate likelihood was strictly greater
\* than the current one and the convergence test did not fire; after every
\* other pass, the terminating converged pass included, it is what it was
\* before the pass.  The trace entry of the pass, which is the last recorded
\* one, holds the current triple (the sequence matrix stored transposed, N x
\* N_S), so the triple returned equals the last recorded trace entry.
C18_AcceptsExactlyWhenGreater ==
  em.iteration >= 1 =>
    /\ IF C18_StrictlyGreater /\ ~em.HAS_converged
         THEN C18_Current = C18_Candidate
         ELSE C18_Current = em.em_prev
    /\ em.samples_sequence[em.iteration - 1] =
         Transpose(em.current_sequence, Len(em.current_sequence),
                   Len(em.current_sequence[1]))
    /\ em.samples_f[em.iteration - 1] = em.current_f
    /\ em.samples_likelihood[em.iteration - 1] = em.current_likelihood
    /\ \A j \in em.iteration..(MaxIter - 1) : em.samples_likelihood[j] = NaN

\* A run that stopped at the step limit: its first pass kept the start against
\* a candidate that was not greater, its second adopted a strictly greater
\* candidate, and its last kept the current triple against a different
\* candidate of equal likelihood.
C18_Witness ==
  /\ em.terminate = 1
  /\ em.iteration = MaxIter
  /\ em.samples_likelihood[0] = em.samples_likelihood[MaxIter - 1] - 2000000
  /\ em.samples_likelihood[1] > em.samples_likelihood[0]
  /\ em.candidate_likelihood = em.em_prev.likelihood
  /\ C18_Current # C18_Candidate
  /\ C18_Current = em.em_prev

\* ------------------------------------------------------------------ claims: Grower candidates

\* C19.  For each split index j evaluated by the grower, the candidate
\* initializer handed to _find_ml_mixture has exactly N_S rows: row j is the
\* first row of the 2-way split, the appended last row is the second row of
\* the split, every other row is the row of the previous optimum the call was
\* entered with, and the initial fractions are N_S entries of 1/N_S; the
\* previous optimum's matrix is, after every pass, the one the call was
\* entered with.
C19_CandidateFromPreviousOptimum ==
  gr.pc \in {"split", "returned", "raised"} =>
    /\ gr.ml_sequence_prev = gr.prev_on_entry
    /\ \A j \in C5_Evaluated :
         LET c == gr.log[j]
         IN  /\ Len(c.this_seq_init) = gr.N_S
             /\ c.this_seq_init[j] = c.this_ml_sequence_split[1]
             /\ c.this_seq_init[gr.N_S] = c.this_ml_sequence_split[2]
             /\ \A i \in 1..(gr.N_S - 1) :
                  i # j => c.this_seq_init[i] = gr.prev_on_entry[i]
             /\ Len(c.this_f_init) = gr.N_S
             /\ \A s \in 1..gr.N_S : c.this_f_init[s] * gr.N_S = FUnit

\* A call that grew two subtypes to three has returned after evaluating both
\* split indices; the first split differed in its first row from the row it
\* replaced, and the second candidate holds the original first row again.
C19_Witness ==
  /\ gr.pc = "returned"
  /\ gr.N_S = 3
  /\ C5_Evaluated = {1, 2}
  /\ gr.log[1].this_ml_sequence_split[1] # gr.prev_on_entry[1]
  /\ gr.log[2].this_seq_init[1] = gr.prev_on_entry[1]
  /\ gr.log[2].this_seq_init[1] # gr.log[1].this_seq_init[1]

\* ------------------------------------------------------------------ claims: redraw loop of _find_ml_mixture2

\* The number of subjects a draw assigns to cluster s.
C20_Count(ca, s) == Cardinality({ m \in DOMAIN ca : ca[m] = s })

\* C20.  In every pass of _find_ml_mixture2 the cluster assignment the pass
\* goes on with has at least one subject in cluster 2, and every draw the
\* loop threw away had none: the assignment is re-drawn exactly while cluster
\* 2 is empty.  The count of cluster 1 plays no part: a draw that leaves
\* cluster 1 empty is gone on with (C20_Witness).
C20_RedrawnWhileLastClusterEmpty ==
  (ml.routine = "find_ml_mixture2" /\ ml.startpoint >= 1) =>
    /\ C20_Count(ml.cluster_assignment, 2) # 0
    /\ \A k \in 1..Len(ml.rejected) : C20_Count(ml.rejected[k], 2) = 0

\* A pass threw a draw away and went on with a draw that puts every subject
\* in cluster 2 and none in cluster 1.
C20_Witness ==
  /\ ml.routine = "find_ml_mixture2"
  /\ ml.startpoint >= 1
  /\ Len(ml.rejected) = 1
  /\ C20_Count(ml.cluster_assignment, 1) = 0
  /\ C20_Count(ml.cluster_assignment, 2) = ML_M

\* ------------------------------------------------------------------ claims: subtype relabelling

\* The mean of the mixture weight of chain subtype s over the whole chain.
C21_MeanWeight(s) ==
  C9_Mean([t \in 1..asg.n_iterations_MCMC |-> asg.samples[t - 1].f[s]])

\* p lists the subtype indices 0..AS_N_S - 1, each once, with their chain-wide
\* mean weights in descending order.
C21_SortsDescending(p) ==
  /\ DOMAIN p = 0..(AS_N_S - 1)
  /\ \A s \in 0..(AS_N_S - 1) : \E r \in 0..(AS_N_S - 1) : p[r] = s
  /\ \A r \in 0..(AS_N_S - 2) :
       ~RLt(C21_MeanWeight(p[r]), C21_MeanWeight(p[r + 1]))

\* C21.  subtype_and_stage_individuals relabels every thinned draw by one
\* permutation, which orders the mean mixture weights of the whole chain in
\* descending order: the subtype given the output label r in a draw is the
\* chain subtype ix[r] of that draw, with the same ix in every draw, and the
\* label 0 is a chain subtype of largest mean weight.
C21_OneRelabellingForEveryDraw ==
  asg.pc \in {"draws", "subjects", "returned", "raised"} =>
    /\ C21_SortsDescending(asg.ix)
    /\ \A s \in 0..(AS_N_S - 1) :
         ~RLt(C21_MeanWeight(asg.ix[0]), C21_MeanWeight(s))
    /\ \A d \in 1..Len(asg.draws) :
         LET draw == asg.draws[d]
         IN  /\ draw.ix = asg.ix
             /\ draw.sample = asg.select_samples[d - 1]
             /\ \A r \in 0..(AS_N_S - 1) :
                  /\ draw.this_S[r] = asg.samples[draw.sample].S[asg.ix[r]]
                  /\ draw.this_f[r] = asg.samples[draw.sample].f[asg.ix[r]]

\* Every draw of a chain of three has been relabelled; chain subtype 1 has the
\* largest mean weight and carries the label 0 in every draw, a draw in which
\* its weight is the smaller one included.
C21_Witness ==
  /\ asg.pc = "subjects"
  /\ Len(asg.draws) = 3
  /\ asg.ix[0] = 1
  /\ RLt(C21_MeanWeight(0), C21_MeanWeight(1))
  /\ \E d \in 1..3 : RLt(asg.draws[d].this_f[0], asg.draws[d].this_f[1])
  /\ \E d \in 1..3 : RLt(asg.draws[d].this_f[1], asg.draws[d].this_f[0])

\* ------------------------------------------------------------------ claims: Grower return

\* C22.  For N_S > 1 the grower returns a defined (S, f, log-likelihood) for
\* every previous optimum and every hard assignment: the call never ends by
\* raising, and when it has ended the triple is that of an evaluated
\* candidate or, when every split candidate was skipped, still a matrix of
\* N_S rows, N_S fractions and a likelihood.
C22_AlwaysReturnsDefined ==
  /\ gr.pc # "raised"
  /\ gr.pc = "returned" =>
       /\ Len(gr.ml_sequence) = gr.N_S
       /\ Len(gr.ml_f) = gr.N_S
       /\ gr.ml_likelihood # NaN

\* ------------------------------------------------------------------ claims: checkpoint keys of cross-validation

\* C23.  The checkpoint key (fold, subtype count) of cross_validate_sustain_model
\* identifies a fold of the fold membership handed to the routine: a
\* checkpoint a call unpickles for a fold was written for the same original
\* fold, whatever the select_fold of the call that wrote it and of the call
\* that reads it.
C23_KeyIdentifiesOriginalFold ==
  cv.pc \in {"loop", "returned", "raised"} =>
    \A unit \in cv.read :
      cv.computed[unit].original_fold = cv.selected_folds[unit[1] + 1]

====
